---- MODULE Spec2Model ----
(***************************************************************************)
(* Tick-to-trade ingest core of trading_engine_cpp:                        *)
(*   - PacketManager (src/packet_manager.hpp), driven the way              *)
(*     FeedHandler::run drives it (src/feed_handler_impl.hpp);             *)
(*   - MemoryPool free list (src/memory_pool.hpp);                         *)
(*   - SPSCQueue (src/spsc_queue.hpp).                                     *)
(* Sequence numbers and timestamps are uint64_t in the source; the model   *)
(* keeps them far below 2^64, so no arithmetic here wraps.                 *)
(***************************************************************************)
EXTENDS Integers, Sequences, FiniteSets, TLC

\* ------------------------------------------------------------------------
\* Bounds of the model
\* ------------------------------------------------------------------------
\* Highest sequence number a datagram may carry, and the number of
\* process_packet calls in a run (caps stats_.total_packets), when every
\* operation of the packet manager is interleaved (Spec).
MaxSeq == 5
MaxPackets == 3
\* The same two for a run of arrivals alone (SpecFeed).
MaxFeedSeq == 6
MaxFeedPackets == 7
\* Last value of the clock.
MaxTime == 4
\* Number of process_gap_fill calls the recovery channel makes in a run.
MaxGapFills == 1
\* Number of allocate and deallocate calls in a run of the pool (SpecPool).
MaxPoolOps == 4
\* Number of values the producer offers in a run of the ring (SpecQueue).
MaxPush == 4
\* Number of empty polls of the ingest loop that are told apart (SpecRun).
MaxSpin == 2

\* ------------------------------------------------------------------------
\* Program constants (scaled down; the source values are in the comments)
\* ------------------------------------------------------------------------
\* packet_manager.hpp:62, 10000 in the source
DUPLICATE_WINDOW_SIZE == 3
\* packet_manager.hpp:69, 1000 in the source
MAX_RESEQUENCE_BUFFER_SIZE == 2
\* packet_manager.hpp:73, 1000 in the source
MAX_GAP_SIZE == 2
\* packet_manager.hpp:74, 1000000000 in the source
GAP_TIMEOUT_NS == 1
\* packet_manager.hpp:75, 3 in the source
MAX_RETRIES == 1

\* memory_pool.hpp:29 (PoolSize), 8192 in FeedHandler
PoolSize == 3
\* spsc_queue.hpp:29 (Size), 65536 in FeedHandler; a power of two
Size == 2
\* logger.hpp:63 (SPSCQueue<LogEntry, 65536>); a power of two
LogSize == 2
\* Threads calling into the pool at once.
NumThreads == 2

SeqNums == 1..MaxSeq
FeedSeqNums == 1..MaxFeedSeq

\* enum class FeedState
INITIAL == "INITIAL"
RECOVERING == "RECOVERING"
LIVE == "LIVE"
STALE == "STALE"
FeedState == {INITIAL, RECOVERING, LIVE, STALE}

VARIABLES
    pm,                 \* the PacketManager object (its fields)
    pm_pc,              \* where FeedHandler::run stands: "poll" or "drain"
    should_process,     \* what the last process_packet returned
    delivered,          \* sequences handed on for delivery, in order
    feed,               \* what has arrived so far (history of the input)
    overflowed,         \* sequences buffer_packet evicted, not accepted again since
    gap_fill_calls,     \* process_gap_fill calls made by the recovery channel
    retransmissions,    \* calls of RecoveryFeedManager::request_retransmission
    snapshots,          \* calls of RecoveryFeedManager::request_snapshot
    now,                \* the clock the ingest loop samples
    \* MemoryPool
    free_list_,         \* head of the free list
    node_next,          \* FreeNode::next as stored in each slot's memory
    pool_stats,         \* allocations_, deallocations_, alloc_failures_
    th,                 \* per thread: where it stands in allocate/deallocate
    held,               \* per thread: the slots allocate returned to it
    \* SPSCQueue
    buffer_, write_pos_, read_pos_, cached_read_pos_, cached_write_pos_,
    prod,               \* producer: position in try_push and its locals
    cons,               \* consumer: position in try_pop and its locals
    pushed,             \* values accepted by try_push, in order
    popped,             \* values returned by try_pop, in order
    \* FeedHandler::run
    g_running,          \* the process-wide running flag
    run_state,          \* "running" inside the loop, "returned" after it
    spin_count,         \* empty polls counted by the loop
    \* AsyncLogger
    log_queue_,         \* the logger's SPSCQueue<LogEntry>
    log_stats,          \* messages_logged_, messages_dropped_
    lth,                \* per logging thread: where it stands in log()
    lio,                \* the I/O thread: where it stands in try_pop
    written,            \* entries handed to write_entry, in order
    \* FeedHandler and TradingEngine around the event ring
    event_queue_,       \* the SPSCQueue<MarketEvent> both threads share
    stats_,             \* FeedHandler's packets_received/processed/dropped
    resequence_data,    \* the packet copy resequence_buffer_ maps each key to
    ready_packets,      \* get_ready_packets' result still to be handed on
    recv_buffer_,       \* the datagram last received
    received,           \* datagrams passed to process_packet so far
    released,           \* packets handed to parse_and_queue_packet, in order
    consumed,           \* events TradingEngine::run popped, in order
    trading_state,      \* TradingEngine::run: "running" or "returned"
    recv_tsc,           \* the rdtsc() read taken for the datagram last received
    captured,           \* per datagram received: its sequence and its recv_tsc
    \* SPSCQueue::size called by a third thread
    size_call,          \* where the call stands, the write it loaded, its result
    \* MemoryPool used from one thread
    pool_trace          \* the calls completed so far, each with its pointer

pmvars == <<pm, pm_pc, should_process, delivered, feed, overflowed, gap_fill_calls,
            retransmissions, snapshots, now>>

poolvars == <<free_list_, node_next, pool_stats, th, held>>

queuevars == <<buffer_, write_pos_, read_pos_, cached_read_pos_, cached_write_pos_,
               prod, cons, pushed, popped>>

runvars == <<g_running, run_state, spin_count>>

logvars == <<log_queue_, log_stats, lth, lio, written>>

pipevars == <<event_queue_, stats_, resequence_data, ready_packets, recv_buffer_,
              received, released, consumed, trading_state, recv_tsc, captured>>

sizevars == <<size_call>>

tracevars == <<pool_trace>>

vars == <<pmvars, poolvars, queuevars, runvars, logvars, pipevars, sizevars,
          tracevars>>

\* ------------------------------------------------------------------------
\* Helpers
\* ------------------------------------------------------------------------
Min(S) == CHOOSE x \in S : \A y \in S : x <= y

Max(S) == CHOOSE x \in S : \A y \in S : x >= y

\* std::remove_if + erase over a vector
RECURSIVE RemoveIf(_, _, _)
RemoveIf(v, s, e) ==
    IF v = <<>> THEN <<>>
    ELSE IF Head(v).start_seq = s /\ Head(v).end_seq = e
         THEN RemoveIf(Tail(v), s, e)
         ELSE <<Head(v)>> \o RemoveIf(Tail(v), s, e)

\* ------------------------------------------------------------------------
\* PacketManager
\* ------------------------------------------------------------------------
Stats0 ==
    [total_packets |-> 0, duplicates |-> 0, gaps_detected |-> 0,
     gaps_filled |-> 0, out_of_order |-> 0, resequenced |-> 0,
     dropped_overflow |-> 0]

\* PacketManager() = default, with the member initialisers
PacketManager0 ==
    [state_ |-> INITIAL,
     next_expected_seq_ |-> 0,
     highest_seq_seen_ |-> 0,
     recent_sequences_ |-> <<>>,
     recent_seq_set_ |-> {},
     resequence_buffer_ |-> {},
     pending_gaps_ |-> <<>>,
     stats_ |-> Stats0]

\* What a member function leaves behind: the object, the value returned and
\* the gap_fill_callback_ invocations it made (request, feed state seen).
Result(m, ret, cb) == [m |-> m, ret |-> ret, cb |-> cb]

Bump(m, counter) == [m EXCEPT !.stats_[counter] = @ + 1]

is_duplicate(m, sequence) == sequence \in m.recent_seq_set_

\* mark_seen evicting the lowest sequence of the window, not the oldest.
mark_seen_evict_lowest(m, sequence) ==
    LET set1 == m.recent_seq_set_ \cup {sequence}
        dq1 == Append(m.recent_sequences_, sequence)
    IN IF Len(dq1) > DUPLICATE_WINDOW_SIZE
       THEN [m EXCEPT !.recent_sequences_ =
                          SelectSeq(dq1, LAMBDA x : x # Min(set1)),
                      !.recent_seq_set_ = set1 \ {Min(set1)}]
       ELSE [m EXCEPT !.recent_sequences_ = dq1, !.recent_seq_set_ = set1]

mark_seen(m, sequence) ==
    LET set1 == m.recent_seq_set_ \cup {sequence}
        dq1 == Append(m.recent_sequences_, sequence)
    IN IF Len(dq1) > DUPLICATE_WINDOW_SIZE
       THEN [m EXCEPT !.recent_sequences_ = Tail(dq1),
                      !.recent_seq_set_ = set1 \ {Head(dq1)}]
       ELSE [m EXCEPT !.recent_sequences_ = dq1, !.recent_seq_set_ = set1]

\* buffer_packet keeping nothing.
buffer_packet_discards(m, sequence) == m

\* buffer_packet filing the packet under the sequence before its own.
buffer_packet_wrong_key(m, sequence) ==
    LET full == Cardinality(m.resequence_buffer_) >= MAX_RESEQUENCE_BUFFER_SIZE
        m1 == IF full
              THEN Bump([m EXCEPT !.resequence_buffer_ = @ \ {Min(@)}],
                        "dropped_overflow")
              ELSE m
    IN [m1 EXCEPT !.resequence_buffer_ = @ \cup {sequence - 1}]

\* buffer_packet evicting only once the buffer is over its limit.
buffer_packet_evict_late(m, sequence) ==
    LET full == Cardinality(m.resequence_buffer_) > MAX_RESEQUENCE_BUFFER_SIZE
        m1 == IF full
              THEN Bump([m EXCEPT !.resequence_buffer_ = @ \ {Min(@)}],
                        "dropped_overflow")
              ELSE m
    IN [m1 EXCEPT !.resequence_buffer_ = @ \cup {sequence}]

\* resequence_buffer_ is a std::map from the sequence to a copy of the
\* packet carrying it; the model keeps its keys.
buffer_packet(m, sequence) ==
    LET full == Cardinality(m.resequence_buffer_) >= MAX_RESEQUENCE_BUFFER_SIZE
        m1 == IF full
              THEN Bump([m EXCEPT !.resequence_buffer_ = @ \ {Min(@)}],
                        "dropped_overflow")
              ELSE m
    IN [m1 EXCEPT !.resequence_buffer_ = @ \cup {sequence}]

\* process_gap_fill without its test of the feed state.
process_gap_fill_any_state(m, start_seq, end_seq) ==
    LET m1 == Bump([m EXCEPT !.pending_gaps_ = RemoveIf(@, start_seq, end_seq)],
                   "gaps_filled")
    IN IF m1.pending_gaps_ = <<>> THEN [m1 EXCEPT !.state_ = LIVE] ELSE m1

\* process_gap_fill returning to LIVE without testing pending_gaps_.empty().
process_gap_fill_unconditional(m, start_seq, end_seq) ==
    LET m1 == Bump([m EXCEPT !.pending_gaps_ = RemoveIf(@, start_seq, end_seq)],
                   "gaps_filled")
    IN IF m1.state_ = RECOVERING
       THEN [m1 EXCEPT !.state_ = LIVE]
       ELSE m1

process_gap_fill(m, start_seq, end_seq) ==
    LET m1 == Bump([m EXCEPT !.pending_gaps_ = RemoveIf(@, start_seq, end_seq)],
                   "gaps_filled")
    IN IF m1.pending_gaps_ = <<>> /\ m1.state_ = RECOVERING
       THEN [m1 EXCEPT !.state_ = LIVE]
       ELSE m1

handle_initial_state(m, sequence) ==
    Result([m EXCEPT !.next_expected_seq_ = sequence + 1, !.state_ = LIVE],
           TRUE, <<>>)

\* handle_live_state going Stale already at a gap of exactly MAX_GAP_SIZE.
handle_live_state_stale_at_max(m, sequence, hasData, timestamp) ==
    IF sequence = m.next_expected_seq_
    THEN Result([m EXCEPT !.next_expected_seq_ = @ + 1], TRUE, <<>>)
    ELSE IF sequence < m.next_expected_seq_
    THEN Result(m, FALSE, <<>>)
    ELSE LET gap_size == sequence - m.next_expected_seq_
             m1 == Bump(m, "gaps_detected")
         IN IF gap_size >= MAX_GAP_SIZE
            THEN Result([m1 EXCEPT !.state_ = STALE], FALSE, <<>>)
            ELSE LET gap_req == [start_seq |-> m.next_expected_seq_,
                                 end_seq |-> sequence - 1,
                                 request_time_ns |-> timestamp,
                                 retry_count |-> 0]
                     m2 == [m1 EXCEPT !.pending_gaps_ = Append(@, gap_req)]
                     cb == <<[req |-> gap_req, seen |-> m2.state_]>>
                     m3 == [m2 EXCEPT !.state_ = RECOVERING]
                     m4 == IF hasData
                           THEN Bump(buffer_packet(m3, sequence), "out_of_order")
                           ELSE m3
                 IN Result(m4, FALSE, cb)

\* handle_live_state leaving request_time_ns of the new request at zero.
handle_live_state_untimed(m, sequence, hasData, timestamp) ==
    IF sequence = m.next_expected_seq_
    THEN Result([m EXCEPT !.next_expected_seq_ = @ + 1], TRUE, <<>>)
    ELSE IF sequence < m.next_expected_seq_
    THEN Result(m, FALSE, <<>>)
    ELSE LET gap_size == sequence - m.next_expected_seq_
             m1 == Bump(m, "gaps_detected")
         IN IF gap_size > MAX_GAP_SIZE
            THEN Result([m1 EXCEPT !.state_ = STALE], FALSE, <<>>)
            ELSE LET gap_req == [start_seq |-> m.next_expected_seq_,
                                 end_seq |-> sequence - 1,
                                 request_time_ns |-> 0,
                                 retry_count |-> 0]
                     m2 == [m1 EXCEPT !.pending_gaps_ = Append(@, gap_req)]
                     cb == <<[req |-> gap_req, seen |-> m2.state_]>>
                     m3 == [m2 EXCEPT !.state_ = RECOVERING]
                     m4 == IF hasData
                           THEN Bump(buffer_packet(m3, sequence), "out_of_order")
                           ELSE m3
                 IN Result(m4, FALSE, cb)

handle_live_state(m, sequence, hasData, timestamp) ==
    IF sequence = m.next_expected_seq_
    THEN Result([m EXCEPT !.next_expected_seq_ = @ + 1], TRUE, <<>>)
    ELSE IF sequence < m.next_expected_seq_
    THEN Result(m, FALSE, <<>>)
    ELSE LET gap_size == sequence - m.next_expected_seq_
             m1 == Bump(m, "gaps_detected")
         IN IF gap_size > MAX_GAP_SIZE
            THEN Result([m1 EXCEPT !.state_ = STALE], FALSE, <<>>)
            ELSE LET gap_req == [start_seq |-> m.next_expected_seq_,
                                 end_seq |-> sequence - 1,
                                 request_time_ns |-> timestamp,
                                 retry_count |-> 0]
                     m2 == [m1 EXCEPT !.pending_gaps_ = Append(@, gap_req)]
                     cb == <<[req |-> gap_req, seen |-> m2.state_]>>
                     m3 == [m2 EXCEPT !.state_ = RECOVERING]
                     m4 == IF hasData
                           THEN Bump(buffer_packet(m3, sequence), "out_of_order")
                           ELSE m3
                 IN Result(m4, FALSE, cb)

\* The loop over pending_gaps_ of the old-packet branch: the first request
\* whose range holds the sequence decides.
RECURSIVE fills_gap(_, _, _)
fills_gap(m, sequence, i) ==
    IF i > Len(m.pending_gaps_)
    THEN Result(m, FALSE, <<>>)
    ELSE LET it == m.pending_gaps_[i]
         IN IF sequence >= it.start_seq /\ sequence <= it.end_seq
            THEN IF sequence = it.end_seq
                 THEN Result(process_gap_fill(m, it.start_seq, it.end_seq),
                             TRUE, <<>>)
                 ELSE Result(m, TRUE, <<>>)
            ELSE fills_gap(m, sequence, i + 1)

\* handle_recovering_state registering a request for a sequence that is
\* ahead, as handle_live_state does.
handle_recovering_state_registers(m, sequence, hasData) ==
    IF sequence = m.next_expected_seq_
    THEN LET m1 == [m EXCEPT !.next_expected_seq_ = @ + 1]
         IN Result(IF m1.pending_gaps_ = <<>>
                   THEN [m1 EXCEPT !.state_ = LIVE]
                   ELSE m1,
                   TRUE, <<>>)
    ELSE IF sequence > m.next_expected_seq_
    THEN LET gap_req == [start_seq |-> m.next_expected_seq_,
                         end_seq |-> sequence - 1,
                         request_time_ns |-> 0,
                         retry_count |-> 0]
             m1 == [m EXCEPT !.pending_gaps_ = Append(@, gap_req)]
         IN Result(IF hasData
                   THEN Bump(buffer_packet(m1, sequence), "out_of_order")
                   ELSE m1,
                   FALSE, <<[req |-> gap_req, seen |-> m1.state_]>>)
    ELSE fills_gap(m, sequence, 1)

\* handle_recovering_state applying handle_live_state's MAX_GAP_SIZE test
\* to a sequence that is ahead.
handle_recovering_state_gap_check(m, sequence, hasData) ==
    IF sequence = m.next_expected_seq_
    THEN LET m1 == [m EXCEPT !.next_expected_seq_ = @ + 1]
         IN Result(IF m1.pending_gaps_ = <<>>
                   THEN [m1 EXCEPT !.state_ = LIVE]
                   ELSE m1,
                   TRUE, <<>>)
    ELSE IF sequence > m.next_expected_seq_
    THEN IF sequence - m.next_expected_seq_ > MAX_GAP_SIZE
         THEN Result([m EXCEPT !.state_ = STALE], FALSE, <<>>)
         ELSE Result(IF hasData
                     THEN Bump(buffer_packet(m, sequence), "out_of_order")
                     ELSE m,
                     FALSE, <<>>)
    ELSE fills_gap(m, sequence, 1)

handle_recovering_state(m, sequence, hasData) ==
    IF sequence = m.next_expected_seq_
    THEN LET m1 == [m EXCEPT !.next_expected_seq_ = @ + 1]
         IN Result(IF m1.pending_gaps_ = <<>>
                   THEN [m1 EXCEPT !.state_ = LIVE]
                   ELSE m1,
                   TRUE, <<>>)
    ELSE IF sequence > m.next_expected_seq_
    THEN Result(IF hasData
                THEN Bump(buffer_packet(m, sequence), "out_of_order")
                ELSE m,
                FALSE, <<>>)
    ELSE fills_gap(m, sequence, 1)

\* process_packet treating a Stale feed as a Live one.
process_packet_stale_as_live(m, sequence, hasData, timestamp) ==
    LET m1 == Bump(m, "total_packets")
        m2 == IF sequence > m1.highest_seq_seen_
              THEN [m1 EXCEPT !.highest_seq_seen_ = sequence]
              ELSE m1
    IN IF is_duplicate(m2, sequence)
       THEN Result(Bump(m2, "duplicates"), FALSE, <<>>)
       ELSE LET m3 == mark_seen(m2, sequence)
            IN CASE m3.state_ = INITIAL -> handle_initial_state(m3, sequence)
                 [] m3.state_ = LIVE ->
                        handle_live_state(m3, sequence, hasData, timestamp)
                 [] m3.state_ = RECOVERING ->
                        handle_recovering_state(m3, sequence, hasData)
                 [] m3.state_ = STALE ->
                        handle_live_state(m3, sequence, hasData, timestamp)

\* process_packet putting every arrival in the window, duplicates too.
process_packet_marks_duplicates(m, sequence, hasData, timestamp) ==
    LET m1 == Bump(m, "total_packets")
        m2 == IF sequence > m1.highest_seq_seen_
              THEN [m1 EXCEPT !.highest_seq_seen_ = sequence]
              ELSE m1
        m3 == mark_seen(m2, sequence)
    IN IF is_duplicate(m2, sequence)
       THEN Result(Bump(m3, "duplicates"), FALSE, <<>>)
       ELSE CASE m3.state_ = INITIAL -> handle_initial_state(m3, sequence)
              [] m3.state_ = LIVE ->
                     handle_live_state(m3, sequence, hasData, timestamp)
              [] m3.state_ = RECOVERING ->
                     handle_recovering_state(m3, sequence, hasData)
              [] m3.state_ = STALE -> Result(m3, FALSE, <<>>)

process_packet(m, sequence, hasData, timestamp) ==
    LET m1 == Bump(m, "total_packets")
        m2 == IF sequence > m1.highest_seq_seen_
              THEN [m1 EXCEPT !.highest_seq_seen_ = sequence]
              ELSE m1
    IN IF is_duplicate(m2, sequence)
       THEN Result(Bump(m2, "duplicates"), FALSE, <<>>)
       ELSE LET m3 == mark_seen(m2, sequence)
            IN CASE m3.state_ = INITIAL -> handle_initial_state(m3, sequence)
                 [] m3.state_ = LIVE ->
                        handle_live_state(m3, sequence, hasData, timestamp)
                 [] m3.state_ = RECOVERING ->
                        handle_recovering_state(m3, sequence, hasData)
                 [] m3.state_ = STALE -> Result(m3, FALSE, <<>>)

\* get_ready_packets with an if where the source has a while.
get_ready_packets_once(m, ready) ==
    IF m.resequence_buffer_ # {} /\ m.next_expected_seq_ \in m.resequence_buffer_
    THEN Result(Bump([m EXCEPT !.resequence_buffer_ = @ \ {m.next_expected_seq_},
                               !.next_expected_seq_ = @ + 1],
                     "resequenced"),
                Append(ready, m.next_expected_seq_), <<>>)
    ELSE Result(m, ready, <<>>)

\* ret is the vector returned: the buffered packets, by their sequence.
RECURSIVE get_ready_packets(_, _)
get_ready_packets(m, ready) ==
    IF m.resequence_buffer_ # {} /\ m.next_expected_seq_ \in m.resequence_buffer_
    THEN get_ready_packets(
             Bump([m EXCEPT !.resequence_buffer_ = @ \ {m.next_expected_seq_},
                            !.next_expected_seq_ = @ + 1],
                  "resequenced"),
             Append(ready, m.next_expected_seq_))
    ELSE Result(m, ready, <<>>)

\* periodic_maintenance giving up one retry early.
RECURSIVE periodic_maintenance_early_stale(_, _, _, _)
periodic_maintenance_early_stale(m, current_time_ns, i, cb) ==
    IF i > Len(m.pending_gaps_)
    THEN Result(m, TRUE, cb)
    ELSE LET gap == m.pending_gaps_[i]
         IN IF current_time_ns - gap.request_time_ns > GAP_TIMEOUT_NS
            THEN IF gap.retry_count < MAX_RETRIES - 1
                 THEN LET gap1 == [gap EXCEPT !.retry_count = @ + 1,
                                              !.request_time_ns = current_time_ns]
                          m1 == [m EXCEPT !.pending_gaps_[i] = gap1]
                      IN periodic_maintenance_early_stale(m1, current_time_ns, i + 1,
                             Append(cb, [req |-> gap1, seen |-> m1.state_]))
                 ELSE periodic_maintenance_early_stale([m EXCEPT !.state_ = STALE],
                                                       current_time_ns, i + 1, cb)
            ELSE periodic_maintenance_early_stale(m, current_time_ns, i + 1, cb)

\* periodic_maintenance retrying while retry_count <= MAX_RETRIES.
RECURSIVE periodic_maintenance_extra_retry(_, _, _, _)
periodic_maintenance_extra_retry(m, current_time_ns, i, cb) ==
    IF i > Len(m.pending_gaps_)
    THEN Result(m, TRUE, cb)
    ELSE LET gap == m.pending_gaps_[i]
         IN IF current_time_ns - gap.request_time_ns > GAP_TIMEOUT_NS
            THEN IF gap.retry_count <= MAX_RETRIES
                 THEN LET gap1 == [gap EXCEPT !.retry_count = @ + 1,
                                              !.request_time_ns = current_time_ns]
                          m1 == [m EXCEPT !.pending_gaps_[i] = gap1]
                      IN periodic_maintenance_extra_retry(m1, current_time_ns, i + 1,
                             Append(cb, [req |-> gap1, seen |-> m1.state_]))
                 ELSE periodic_maintenance_extra_retry([m EXCEPT !.state_ = STALE],
                                                       current_time_ns, i + 1, cb)
            ELSE periodic_maintenance_extra_retry(m, current_time_ns, i + 1, cb)

\* The range-for over pending_gaps_, from element i on.
RECURSIVE periodic_maintenance(_, _, _, _)
periodic_maintenance(m, current_time_ns, i, cb) ==
    IF i > Len(m.pending_gaps_)
    THEN Result(m, TRUE, cb)
    ELSE LET gap == m.pending_gaps_[i]
         IN IF current_time_ns - gap.request_time_ns > GAP_TIMEOUT_NS
            THEN IF gap.retry_count < MAX_RETRIES
                 THEN LET gap1 == [gap EXCEPT !.retry_count = @ + 1,
                                              !.request_time_ns = current_time_ns]
                          m1 == [m EXCEPT !.pending_gaps_[i] = gap1]
                      IN periodic_maintenance(m1, current_time_ns, i + 1,
                             Append(cb, [req |-> gap1, seen |-> m1.state_]))
                 ELSE periodic_maintenance([m EXCEPT !.state_ = STALE],
                                           current_time_ns, i + 1, cb)
            ELSE periodic_maintenance(m, current_time_ns, i + 1, cb)

\* trigger_resync leaving the duplicate window's set as it is.
trigger_resync_keeps_set(m) ==
    [m EXCEPT !.state_ = INITIAL,
              !.resequence_buffer_ = {},
              !.pending_gaps_ = <<>>,
              !.recent_sequences_ = <<>>]

\* trigger_resync that also rewinds next_expected_seq_.
trigger_resync_rewind(m) ==
    [m EXCEPT !.state_ = INITIAL,
              !.next_expected_seq_ = 0,
              !.resequence_buffer_ = {},
              !.pending_gaps_ = <<>>,
              !.recent_sequences_ = <<>>,
              !.recent_seq_set_ = {}]

trigger_resync(m) ==
    [m EXCEPT !.state_ = INITIAL,
              !.resequence_buffer_ = {},
              !.pending_gaps_ = <<>>,
              !.recent_sequences_ = <<>>,
              !.recent_seq_set_ = {}]

\* FeedHandler::handle_gap_fill_request, once per callback invocation:
\* request_retransmission always, request_snapshot when the feed is STALE.
SnapshotCalls(cb) == Cardinality({i \in 1..Len(cb) : cb[i].seen = STALE})

handle_gap_fill_request(cb) ==
    /\ retransmissions' = retransmissions + Len(cb)
    /\ snapshots' = snapshots + SnapshotCalls(cb)

\* ------------------------------------------------------------------------
\* The ingest loop's steps on the packet manager
\* ------------------------------------------------------------------------
PMInit ==
    /\ pm = PacketManager0
    /\ pm_pc = "poll"
    /\ should_process = FALSE
    /\ delivered = <<>>
    /\ feed = [first |-> 0, last |-> 0, arrived |-> {}, late |-> FALSE]
    /\ overflowed = {}
    /\ gap_fill_calls = 0
    /\ retransmissions = 0
    /\ snapshots = 0
    /\ now = 0

\* process_packet on a received datagram; a true return hands the packet on.
\* feed records the input: the first and the last sequence received, the set
\* received, and whether a sequence came again after the duplicate window had
\* let go of it.
ProcessPacket(sequence, hasData) ==
    /\ pm_pc = "poll"
    /\ LET r == process_packet(pm, sequence, hasData, now)
       IN /\ pm' = r.m
          /\ should_process' = r.ret
          /\ delivered' = IF r.ret THEN Append(delivered, sequence) ELSE delivered
          /\ handle_gap_fill_request(r.cb)
          /\ overflowed' =
                 (overflowed \cup (pm.resequence_buffer_ \ r.m.resequence_buffer_))
                     \ (IF is_duplicate(pm, sequence) THEN {} ELSE {sequence})
    /\ feed' = [first |-> IF feed.arrived = {} THEN sequence ELSE feed.first,
                last |-> sequence,
                arrived |-> feed.arrived \cup {sequence},
                late |-> feed.late \/ (sequence \in feed.arrived
                                         /\ ~is_duplicate(pm, sequence))]
    /\ pm_pc' = "drain"
    /\ UNCHANGED <<gap_fill_calls, now>>

\* get_ready_packets right after, each ready packet handed on in turn.
GetReadyPackets ==
    /\ pm_pc = "drain"
    /\ LET r == get_ready_packets(pm, <<>>)
       IN /\ pm' = r.m
          /\ delivered' = delivered \o r.ret
    /\ pm_pc' = "poll"
    /\ UNCHANGED <<should_process, feed, overflowed, gap_fill_calls, retransmissions,
                   snapshots, now>>

PeriodicMaintenance ==
    /\ pm_pc = "poll"
    /\ LET r == periodic_maintenance(pm, now, 1, <<>>)
       IN /\ pm' = r.m
          /\ handle_gap_fill_request(r.cb)
    /\ UNCHANGED <<pm_pc, should_process, delivered, feed, overflowed, gap_fill_calls,
                   now>>

\* The recovery channel reporting a range as satisfied.
ProcessGapFill(start_seq, end_seq) ==
    /\ pm_pc = "poll"
    /\ gap_fill_calls < MaxGapFills
    /\ start_seq <= end_seq
    /\ pm' = process_gap_fill(pm, start_seq, end_seq)
    /\ gap_fill_calls' = gap_fill_calls + 1
    /\ UNCHANGED <<pm_pc, should_process, delivered, feed, overflowed, retransmissions,
                   snapshots, now>>

TriggerResync ==
    /\ pm_pc = "poll"
    /\ pm' = trigger_resync(pm)
    /\ overflowed' = {}
    /\ UNCHANGED <<pm_pc, should_process, delivered, feed, gap_fill_calls,
                   retransmissions, snapshots, now>>

Tick ==
    /\ now < MaxTime
    /\ now' = now + 1
    /\ pm.pending_gaps_ # <<>>
    /\ UNCHANGED <<pm, pm_pc, should_process, delivered, feed, overflowed,
                   gap_fill_calls, retransmissions, snapshots>>

\* Every operation of the packet manager, in any order the ingest thread and
\* the recovery channel can produce.
PMNext ==
    \/ \E sequence \in SeqNums, hasData \in BOOLEAN :
           /\ pm.stats_.total_packets < MaxPackets
           /\ ProcessPacket(sequence, hasData)
    \/ GetReadyPackets
    \/ PeriodicMaintenance
    \/ \E s \in SeqNums, e \in SeqNums : ProcessGapFill(s, e)
    \/ TriggerResync
    \/ Tick

\* Arrivals alone, as FeedHandler::process_packet passes them on: always with
\* the datagram's bytes.
FeedNext ==
    \/ \E sequence \in FeedSeqNums :
           /\ pm.stats_.total_packets < MaxFeedPackets
           /\ ProcessPacket(sequence, TRUE)
    \/ GetReadyPackets

\* ------------------------------------------------------------------------
\* MemoryPool: allocate and deallocate, one atomic access per step
\* ------------------------------------------------------------------------
Slots == 0..(PoolSize - 1)
nullptr == -1
Threads == 1..NumThreads

\* initialize_free_list linking the blocks in ascending loop order: the head
\* is the last slot and slot i links to slot i-1.
PoolInitDescending ==
    /\ free_list_ = PoolSize - 1
    /\ node_next = [s \in Slots |-> IF s = 0 THEN nullptr ELSE s - 1]
    /\ pool_stats = [allocations_ |-> 0, deallocations_ |-> 0, alloc_failures_ |-> 0]
    /\ th = [t \in Threads |->
                [pc |-> "idle", old_head |-> nullptr, new_head |-> nullptr,
                 node |-> nullptr]]
    /\ held = [t \in Threads |-> {}]

\* initialize_free_list: slot i links to slot i+1, the head is slot 0.
PoolInit ==
    /\ free_list_ = 0
    /\ node_next = [s \in Slots |-> IF s = PoolSize - 1 THEN nullptr ELSE s + 1]
    /\ pool_stats = [allocations_ |-> 0, deallocations_ |-> 0, alloc_failures_ |-> 0]
    /\ th = [t \in Threads |->
                [pc |-> "idle", old_head |-> nullptr, new_head |-> nullptr,
                 node |-> nullptr]]
    /\ held = [t \in Threads |-> {}]

PoolCalls == pool_stats.allocations_ + pool_stats.deallocations_

\* allocate(): allocations_.fetch_add
AllocBegin(t) ==
    /\ th[t].pc = "idle"
    /\ PoolCalls < MaxPoolOps
    /\ pool_stats' = [pool_stats EXCEPT !.allocations_ = @ + 1]
    /\ th' = [th EXCEPT ![t].pc = "a_load"]
    /\ UNCHANGED <<free_list_, node_next, held>>

\* old_head = free_list_.load(acquire)
AllocLoad(t) ==
    /\ th[t].pc = "a_load"
    /\ th' = [th EXCEPT ![t].pc = "a_next", ![t].old_head = free_list_]
    /\ UNCHANGED <<free_list_, node_next, pool_stats, held>>

\* while (old_head != nullptr) { new_head = old_head->next; ...
AllocReadNext(t) ==
    /\ th[t].pc = "a_next"
    /\ IF th[t].old_head = nullptr
       THEN th' = [th EXCEPT ![t].pc = "a_fail"]
       ELSE th' = [th EXCEPT ![t].pc = "a_cas",
                             ![t].new_head = node_next[th[t].old_head]]
    /\ UNCHANGED <<free_list_, node_next, pool_stats, held>>

\* compare_exchange_weak(old_head, new_head): on success the block is
\* returned to the caller; on failure old_head is reloaded and the loop
\* goes round.  The weak form may also fail when the values are equal.
AllocCas(t) ==
    /\ th[t].pc = "a_cas"
    /\ \/ /\ free_list_ = th[t].old_head
          /\ free_list_' = th[t].new_head
          /\ held' = [held EXCEPT ![t] = @ \cup {th[t].old_head}]
          /\ th' = [th EXCEPT ![t].pc = "idle"]
       \/ /\ th' = [th EXCEPT ![t].pc = "a_next", ![t].old_head = free_list_]
          /\ UNCHANGED <<free_list_, held>>
    /\ UNCHANGED <<node_next, pool_stats>>

\* Pool exhausted: alloc_failures_.fetch_add, return nullptr
AllocFail(t) ==
    /\ th[t].pc = "a_fail"
    /\ pool_stats' = [pool_stats EXCEPT !.alloc_failures_ = @ + 1]
    /\ th' = [th EXCEPT ![t].pc = "idle"]
    /\ UNCHANGED <<free_list_, node_next, held>>

\* deallocate(ptr) of a block the caller holds: deallocations_.fetch_add
DeallocBegin(t, ptr) ==
    /\ th[t].pc = "idle"
    /\ ptr \in held[t]
    /\ PoolCalls < MaxPoolOps
    /\ pool_stats' = [pool_stats EXCEPT !.deallocations_ = @ + 1]
    /\ held' = [held EXCEPT ![t] = @ \ {ptr}]
    /\ th' = [th EXCEPT ![t].pc = "d_load", ![t].node = ptr]
    /\ UNCHANGED <<free_list_, node_next>>

\* old_head = free_list_.load(acquire)
DeallocLoad(t) ==
    /\ th[t].pc = "d_load"
    /\ th' = [th EXCEPT ![t].pc = "d_link", ![t].old_head = free_list_]
    /\ UNCHANGED <<free_list_, node_next, pool_stats, held>>

\* do { node->next = old_head; ...
DeallocLink(t) ==
    /\ th[t].pc = "d_link"
    /\ node_next' = [node_next EXCEPT ![th[t].node] = th[t].old_head]
    /\ th' = [th EXCEPT ![t].pc = "d_cas"]
    /\ UNCHANGED <<free_list_, pool_stats, held>>

\* ... } while (!compare_exchange_weak(old_head, node))
DeallocCas(t) ==
    /\ th[t].pc = "d_cas"
    /\ \/ /\ free_list_ = th[t].old_head
          /\ free_list_' = th[t].node
          /\ th' = [th EXCEPT ![t].pc = "idle", ![t].node = nullptr]
       \/ /\ th' = [th EXCEPT ![t].pc = "d_link", ![t].old_head = free_list_]
          /\ UNCHANGED free_list_
    /\ UNCHANGED <<node_next, pool_stats, held>>

\* deallocate(nullptr): if (!ptr) return;
DeallocNull(t) ==
    /\ th[t].pc = "idle"
    /\ UNCHANGED poolvars

PoolNext ==
    \E t \in Threads :
        \/ AllocBegin(t)
        \/ AllocLoad(t)
        \/ AllocReadNext(t)
        \/ AllocCas(t)
        \/ AllocFail(t)
        \/ \E ptr \in Slots : DeallocBegin(t, ptr)
        \/ DeallocLoad(t)
        \/ DeallocLink(t)
        \/ DeallocCas(t)

\* get_stats(): the three counters and in_use = allocations - deallocations
get_stats ==
    [allocations |-> pool_stats.allocations_,
     deallocations |-> pool_stats.deallocations_,
     failures |-> pool_stats.alloc_failures_,
     in_use |-> pool_stats.allocations_ - pool_stats.deallocations_]

\* The free list, walked from the head for at most n links.
RECURSIVE FreeListWalk(_, _)
FreeListWalk(head, n) ==
    IF head = nullptr \/ n = 0
    THEN <<>>
    ELSE <<head>> \o FreeListWalk(node_next[head], n - 1)

OnFreeList(s) ==
    LET walk == FreeListWalk(free_list_, PoolSize + 1)
    IN Cardinality({i \in 1..Len(walk) : walk[i] = s})

Holders(s) == Cardinality({t \in Threads : s \in held[t]})

\* Blocks inside a deallocate call: given up by the caller, not yet linked.
InTransit(s) == Cardinality({t \in Threads : th[t].node = s})

\* ------------------------------------------------------------------------
\* SPSCQueue: try_push and try_pop, one shared access per step
\* ------------------------------------------------------------------------
SIZE_MASK == Size - 1

\* current & SIZE_MASK, Size being a power of two
Slot(pos) == pos % Size

\* buffer_ starts with whatever the storage held: 0, a value never pushed.
QueueInit ==
    /\ buffer_ = [i \in 0..SIZE_MASK |-> 0]
    /\ write_pos_ = 0
    /\ read_pos_ = 0
    /\ cached_read_pos_ = 0
    /\ cached_write_pos_ = 0
    /\ prod = [pc |-> "idle", current_write |-> 0, item |-> 0]
    /\ cons = [pc |-> "idle", current_read |-> 0, item |-> 0]
    /\ pushed = <<>>
    /\ popped = <<>>

\* try_push's test: next_write - cached_read_pos_ > Size, off by one.
QueueFullLate(next_write, read) == next_write - read > Size + 1

\* next_write - cached_read_pos_ > Size
QueueFull(next_write, read) == next_write - read > Size

\* try_pop's test taking a ring with one item left for empty.
QueueEmptyEarly(current_read, write) == current_read + 1 >= write

\* current_read >= cached_write_pos_
QueueEmpty(current_read, write) == current_read >= write

\* try_push(item): load write_pos_, test against the cached read position.
\* The producer offers the values 1, 2, 3, ... in turn.
PushBegin ==
    /\ prod.pc = "idle"
    /\ Len(pushed) < MaxPush
    /\ prod' = [pc |-> IF QueueFull(write_pos_ + 1, cached_read_pos_)
                       THEN "reload" ELSE "write",
                current_write |-> write_pos_,
                item |-> Len(pushed) + 1]
    /\ UNCHANGED <<buffer_, write_pos_, read_pos_, cached_read_pos_,
                   cached_write_pos_, cons, pushed, popped>>

\* cached_read_pos_ = read_pos_.load(acquire); still full: return false
PushReload ==
    /\ prod.pc = "reload"
    /\ cached_read_pos_' = read_pos_
    /\ prod' = [prod EXCEPT !.pc = IF QueueFull(prod.current_write + 1, read_pos_)
                                   THEN "idle" ELSE "write"]
    /\ UNCHANGED <<buffer_, write_pos_, read_pos_, cached_write_pos_, cons,
                   pushed, popped>>

\* buffer_[current_write & SIZE_MASK] = item
PushWrite ==
    /\ prod.pc = "write"
    /\ buffer_' = [buffer_ EXCEPT ![Slot(prod.current_write)] = prod.item]
    /\ prod' = [prod EXCEPT !.pc = "store"]
    /\ UNCHANGED <<write_pos_, read_pos_, cached_read_pos_, cached_write_pos_,
                   cons, pushed, popped>>

\* write_pos_.store(next_write, release); return true
PushStore ==
    /\ prod.pc = "store"
    /\ write_pos_' = prod.current_write + 1
    /\ pushed' = Append(pushed, prod.item)
    /\ prod' = [prod EXCEPT !.pc = "idle"]
    /\ UNCHANGED <<buffer_, read_pos_, cached_read_pos_, cached_write_pos_,
                   cons, popped>>

\* try_pop(item): load read_pos_, test against the cached write position
PopBegin ==
    /\ cons.pc = "idle"
    /\ cons' = [cons EXCEPT !.pc = IF QueueEmpty(read_pos_, cached_write_pos_)
                                   THEN "reload" ELSE "read",
                            !.current_read = read_pos_]
    /\ UNCHANGED <<buffer_, write_pos_, read_pos_, cached_read_pos_,
                   cached_write_pos_, prod, pushed, popped>>

\* cached_write_pos_ = write_pos_.load(acquire); still empty: return false
PopReload ==
    /\ cons.pc = "reload"
    /\ cached_write_pos_' = write_pos_
    /\ cons' = [cons EXCEPT !.pc = IF QueueEmpty(cons.current_read, write_pos_)
                                   THEN "idle" ELSE "read"]
    /\ UNCHANGED <<buffer_, write_pos_, read_pos_, cached_read_pos_, prod,
                   pushed, popped>>

\* item = buffer_[current_read & SIZE_MASK]
PopRead ==
    /\ cons.pc = "read"
    /\ cons' = [cons EXCEPT !.pc = "store", !.item = buffer_[Slot(cons.current_read)]]
    /\ UNCHANGED <<buffer_, write_pos_, read_pos_, cached_read_pos_,
                   cached_write_pos_, prod, pushed, popped>>

\* read_pos_.store(current_read + 1, release); return true
PopStore ==
    /\ cons.pc = "store"
    /\ read_pos_' = cons.current_read + 1
    /\ popped' = Append(popped, cons.item)
    /\ cons' = [cons EXCEPT !.pc = "idle"]
    /\ UNCHANGED <<buffer_, write_pos_, cached_read_pos_, cached_write_pos_,
                   prod, pushed>>

QueueNext ==
    \/ PushBegin
    \/ PushReload
    \/ PushWrite
    \/ PushStore
    \/ PopBegin
    \/ PopReload
    \/ PopRead
    \/ PopStore

\* size() returns size_t: write - read wraps modulo 2^64, scaled to 2^4.
SIZE_T_MODULUS == 16

SizeInit == size_call = [pc |-> "idle", write |-> 0, ret |-> 0]

\* const uint64_t write = write_pos_.load(acquire)
SizeLoadWrite ==
    /\ size_call.pc = "idle"
    /\ size_call' = [size_call EXCEPT !.pc = "read", !.write = write_pos_]
    /\ UNCHANGED queuevars

\* const uint64_t read = read_pos_.load(acquire); return write - read
SizeLoadRead ==
    /\ size_call.pc = "read"
    /\ size_call' = [size_call EXCEPT
                        !.pc = "idle",
                        !.ret = (size_call.write - read_pos_) % SIZE_T_MODULUS]
    /\ UNCHANGED queuevars

\* The producer, the consumer and a thread calling size().
SizeNext ==
    \/ QueueNext /\ UNCHANGED sizevars
    \/ SizeLoadWrite
    \/ SizeLoadRead

\* ------------------------------------------------------------------------
\* FeedHandler::run: the ingest loop, one iteration per step
\* ------------------------------------------------------------------------
RunInit ==
    /\ g_running = TRUE
    /\ run_state = "running"
    /\ spin_count = 0

\* while (g_running.load(acquire)) found true
InLoop == run_state = "running" /\ g_running

\* bytes_received > 0: process_packet; the drain of the same iteration is
\* the GetReadyPackets step that follows.
RunPacket(sequence) ==
    /\ InLoop
    /\ ProcessPacket(sequence, TRUE)
    /\ UNCHANGED runvars

RunDrain ==
    /\ run_state = "running"
    /\ GetReadyPackets
    /\ UNCHANGED runvars

\* bytes_received == 0: SpinWait::pause(), spin_count++
RunIdle ==
    /\ InLoop
    /\ pm_pc = "poll"
    /\ spin_count < MaxSpin
    /\ spin_count' = spin_count + 1
    /\ UNCHANGED <<g_running, run_state, pmvars>>

\* An iteration whose maintenance interval has elapsed and whose poll is empty.
RunMaintenance ==
    /\ InLoop
    /\ PeriodicMaintenance
    /\ UNCHANGED runvars

\* bytes_received < 0: "Receive error", break
RunReceiveError ==
    /\ InLoop
    /\ pm_pc = "poll"
    /\ run_state' = "returned"
    /\ UNCHANGED <<g_running, spin_count, pmvars>>

\* The loop test finds the flag cleared.
RunExit ==
    /\ run_state = "running"
    /\ pm_pc = "poll"
    /\ ~g_running
    /\ run_state' = "returned"
    /\ UNCHANGED <<g_running, spin_count, pmvars>>

\* signal_handler: g_running.store(false)
SignalStop ==
    /\ g_running
    /\ g_running' = FALSE
    /\ UNCHANGED <<run_state, spin_count, pmvars>>

RunTick ==
    /\ InLoop
    /\ Tick
    /\ UNCHANGED runvars

RunNext ==
    \/ \E sequence \in SeqNums :
           /\ pm.stats_.total_packets < MaxPackets
           /\ RunPacket(sequence)
    \/ RunDrain
    \/ RunIdle
    \/ RunMaintenance
    \/ RunReceiveError
    \/ RunExit
    \/ SignalStop
    \/ RunTick

\* ------------------------------------------------------------------------
\* AsyncLogger: the threads of main() logging through one SPSCQueue
\* ------------------------------------------------------------------------
\* main() logs, starts the feed and trading threads, joins them and logs
\* again; FeedHandler::run and TradingEngine::run each log once on entry.
LogThreads == {"main", "feed", "trading"}

\* The message each call passes: told apart by caller and call.
Message(t, stage) ==
    CASE t = "main" /\ stage = 0 -> "HFT System Starting"
      [] t = "main" /\ stage = 1 -> "HFT System Shutdown Complete"
      [] t = "feed" -> "FeedHandler thread started"
      [] t = "trading" -> "TradingEngine thread started"

LogInit ==
    /\ log_queue_ = [buffer_ |-> [i \in 0..(LogSize - 1) |-> ""],
                     write_pos_ |-> 0, read_pos_ |-> 0,
                     cached_read_pos_ |-> 0, cached_write_pos_ |-> 0]
    /\ log_stats = [messages_logged_ |-> 0, messages_dropped_ |-> 0]
    /\ lth = [t \in LogThreads |->
                 [pc |-> IF t = "main" THEN "call" ELSE "unstarted",
                  stage |-> 0, current_write |-> 0]]
    /\ lio = [pc |-> "idle", current_read |-> 0, item |-> ""]
    /\ written = <<>>

\* Where a thread goes on when log() returns.
AfterLog(t) ==
    IF t = "main" /\ lth[t].stage = 0 THEN "spawn" ELSE "done"

\* AsyncLogger::log -> try_push: load write_pos_, test the cached position
LogPushBegin(t) ==
    /\ lth[t].pc = "call"
    /\ lth' = [lth EXCEPT
                 ![t].current_write = log_queue_.write_pos_,
                 ![t].pc = IF log_queue_.write_pos_ + 1
                                - log_queue_.cached_read_pos_ > LogSize
                           THEN "reload" ELSE "write"]
    /\ UNCHANGED <<log_queue_, log_stats, lio, written>>

\* cached_read_pos_ = read_pos_.load(); still full: messages_dropped_++
LogPushReload(t) ==
    /\ lth[t].pc = "reload"
    /\ log_queue_' = [log_queue_ EXCEPT !.cached_read_pos_ = log_queue_.read_pos_]
    /\ IF lth[t].current_write + 1 - log_queue_.read_pos_ > LogSize
       THEN /\ lth' = [lth EXCEPT ![t].pc = AfterLog(t)]
            /\ log_stats' = [log_stats EXCEPT !.messages_dropped_ = @ + 1]
       ELSE /\ lth' = [lth EXCEPT ![t].pc = "write"]
            /\ UNCHANGED log_stats
    /\ UNCHANGED <<lio, written>>

\* buffer_[current_write & SIZE_MASK] = entry
LogPushWrite(t) ==
    /\ lth[t].pc = "write"
    /\ log_queue_' = [log_queue_ EXCEPT
                        !.buffer_[lth[t].current_write % LogSize] =
                            Message(t, lth[t].stage)]
    /\ lth' = [lth EXCEPT ![t].pc = "store"]
    /\ UNCHANGED <<log_stats, lio, written>>

\* write_pos_.store(next_write); back in log(): messages_logged_++
LogPushStore(t) ==
    /\ lth[t].pc = "store"
    /\ log_queue_' = [log_queue_ EXCEPT !.write_pos_ = lth[t].current_write + 1]
    /\ log_stats' = [log_stats EXCEPT !.messages_logged_ = @ + 1]
    /\ lth' = [lth EXCEPT ![t].pc = AfterLog(t)]
    /\ UNCHANGED <<lio, written>>

\* main(): std::thread feed_thread, trading_thread
MainSpawn ==
    /\ lth["main"].pc = "spawn"
    /\ lth' = [lth EXCEPT !["main"].pc = "join",
                          !["feed"].pc = "call",
                          !["trading"].pc = "call"]
    /\ UNCHANGED <<log_queue_, log_stats, lio, written>>

\* main(): feed_thread.join(); trading_thread.join(); then the last LOG_INFO
MainJoin ==
    /\ lth["main"].pc = "join"
    /\ lth["feed"].pc = "done"
    /\ lth["trading"].pc = "done"
    /\ lth' = [lth EXCEPT !["main"].pc = "call", !["main"].stage = 1]
    /\ UNCHANGED <<log_queue_, log_stats, lio, written>>

\* io_thread_func -> try_pop: load read_pos_, test the cached position
LogPopBegin ==
    /\ lio.pc = "idle"
    /\ lio' = [lio EXCEPT
                 !.current_read = log_queue_.read_pos_,
                 !.pc = IF log_queue_.read_pos_ >= log_queue_.cached_write_pos_
                        THEN "reload" ELSE "read"]
    /\ UNCHANGED <<log_queue_, log_stats, lth, written>>

\* cached_write_pos_ = write_pos_.load(); still empty: sleep and try again
LogPopReload ==
    /\ lio.pc = "reload"
    /\ log_queue_' = [log_queue_ EXCEPT !.cached_write_pos_ = log_queue_.write_pos_]
    /\ lio' = [lio EXCEPT !.pc = IF lio.current_read >= log_queue_.write_pos_
                                  THEN "idle" ELSE "read"]
    /\ UNCHANGED <<log_stats, lth, written>>

\* item = buffer_[current_read & SIZE_MASK]
LogPopRead ==
    /\ lio.pc = "read"
    /\ lio' = [lio EXCEPT !.pc = "store",
                          !.item = log_queue_.buffer_[lio.current_read % LogSize]]
    /\ UNCHANGED <<log_queue_, log_stats, lth, written>>

\* read_pos_.store(current_read + 1); write_entry(entry)
LogPopStore ==
    /\ lio.pc = "store"
    /\ log_queue_' = [log_queue_ EXCEPT !.read_pos_ = lio.current_read + 1]
    /\ written' = Append(written, lio.item)
    /\ lio' = [lio EXCEPT !.pc = "idle"]
    /\ UNCHANGED <<log_stats, lth>>

LogNext ==
    \/ \E t \in LogThreads :
           \/ LogPushBegin(t)
           \/ LogPushReload(t)
           \/ LogPushWrite(t)
           \/ LogPushStore(t)
    \/ MainSpawn
    \/ MainJoin
    \/ LogPopBegin
    \/ LogPopReload
    \/ LogPopRead
    \/ LogPopStore

\* ------------------------------------------------------------------------
\* FeedHandler and TradingEngine: datagram to event ring to consumer
\* ------------------------------------------------------------------------
\* The message types parse_and_queue_packet tells apart; the other types of
\* the enum take the HEARTBEAT way out (return before try_push).
MessageTypes == {"TRADE", "QUOTE", "HEARTBEAT"}

\* constexpr uint64_t STATS_INTERVAL, scaled: all the loop uses of spin_count
\* is spin_count % STATS_INTERVAL.
STATS_INTERVAL == 2

\* MarketEvent event{}: the payload copied from a packet is told apart by the
\* sequence of the datagram it came in.
MarketEvent0 == [type |-> "NONE", payload |-> 0, recv_timestamp_ns |-> 0]

PipeInit ==
    /\ event_queue_ = [buffer_ |-> [i \in 0..(Size - 1) |-> MarketEvent0],
                       write_pos_ |-> 0, read_pos_ |-> 0,
                       cached_read_pos_ |-> 0, cached_write_pos_ |-> 0]
    /\ stats_ = [packets_received |-> 0, packets_processed |-> 0,
                 packets_dropped |-> 0]
    /\ resequence_data = [s \in SeqNums |-> "NONE"]
    /\ ready_packets = <<>>
    /\ recv_buffer_ = [packet_sequence |-> 0, msg_type |-> "NONE"]
    /\ received = {}
    /\ released = <<>>
    /\ consumed = <<>>
    /\ trading_state = "running"
    /\ recv_tsc = 0
    /\ captured = {}

\* SPSCQueue::try_push run by the one producer without interruption.
try_push(q, item) ==
    LET current_write == q.write_pos_
        next_write == current_write + 1
        q1 == IF next_write - q.cached_read_pos_ > Size
              THEN [q EXCEPT !.cached_read_pos_ = q.read_pos_]
              ELSE q
    IN IF next_write - q1.cached_read_pos_ > Size
       THEN [q |-> q1, ret |-> FALSE]
       ELSE [q |-> [q1 EXCEPT !.buffer_[Slot(current_write)] = item,
                              !.write_pos_ = next_write],
             ret |-> TRUE]

\* try_pop trusting cached_write_pos_ without loading write_pos_ again.
try_pop_no_refresh(q) ==
    LET current_read == q.read_pos_
    IN IF current_read >= q.cached_write_pos_
       THEN [q |-> q, ret |-> FALSE, item |-> MarketEvent0]
       ELSE [q |-> [q EXCEPT !.read_pos_ = current_read + 1],
             ret |-> TRUE,
             item |-> q.buffer_[Slot(current_read)]]

\* SPSCQueue::try_pop run by the one consumer without interruption.
try_pop(q) ==
    LET current_read == q.read_pos_
        q1 == IF current_read >= q.cached_write_pos_
              THEN [q EXCEPT !.cached_write_pos_ = q.write_pos_]
              ELSE q
    IN IF current_read >= q1.cached_write_pos_
       THEN [q |-> q1, ret |-> FALSE, item |-> MarketEvent0]
       ELSE [q |-> [q1 EXCEPT !.read_pos_ = current_read + 1],
             ret |-> TRUE,
             item |-> q.buffer_[Slot(current_read)]]

\* parse_and_queue_packet counting a refused event as processed.
parse_and_queue_packet_counts_refused(q, st, packet, tsc) ==
    IF packet.msg_type \in {"TRADE", "QUOTE"}
    THEN LET event == [type |-> packet.msg_type,
                       payload |-> packet.packet_sequence,
                       recv_timestamp_ns |-> tsc]
             r == try_push(q, event)
         IN [q |-> r.q, st |-> [st EXCEPT !.packets_processed = @ + 1]]
    ELSE [q |-> q, st |-> st]

\* parse_and_queue_packet without the early return for HEARTBEAT.
parse_and_queue_packet_pushes_heartbeat(q, st, packet, tsc) ==
    LET event == [type |-> packet.msg_type, payload |-> packet.packet_sequence,
                  recv_timestamp_ns |-> tsc]
        r == try_push(q, event)
    IN IF ~r.ret
       THEN [q |-> r.q, st |-> [st EXCEPT !.packets_dropped = @ + 1]]
       ELSE [q |-> r.q, st |-> [st EXCEPT !.packets_processed = @ + 1]]

\* The ring and the counters after parse_and_queue_packet.
parse_and_queue_packet(q, st, packet, tsc) ==
    IF packet.msg_type \in {"TRADE", "QUOTE"}
    THEN LET event == [type |-> packet.msg_type,
                       payload |-> packet.packet_sequence,
                       recv_timestamp_ns |-> tsc]
             r == try_push(q, event)
         IN IF ~r.ret
            THEN [q |-> r.q, st |-> [st EXCEPT !.packets_dropped = @ + 1]]
            ELSE [q |-> r.q, st |-> [st EXCEPT !.packets_processed = @ + 1]]
    ELSE [q |-> q, st |-> st]

\* rdtsc() read once more: the counter has moved on since the last read (the
\* reads are told apart by their order, `now` counts the same clock in units
\* of GAP_TIMEOUT_NS).
rdtsc(last) == last + 1

\* bytes_received > 0: recv_tsc = rdtsc(), packets_received++,
\* FeedHandler::process_packet.
FeedReceive(sequence, msg_type) ==
    /\ ready_packets = <<>>
    /\ RunPacket(sequence)
    /\ LET packet == [packet_sequence |-> sequence, msg_type |-> msg_type]
           tsc == rdtsc(recv_tsc)
           r == process_packet(pm, sequence, TRUE, now)
           st1 == [stats_ EXCEPT !.packets_received = @ + 1]
           out == IF r.ret
                  THEN parse_and_queue_packet(event_queue_, st1, packet, tsc)
                  ELSE [q |-> event_queue_, st |-> st1]
           buffered == r.m.stats_.out_of_order > pm.stats_.out_of_order
       IN /\ recv_tsc' = tsc
          /\ captured' = captured \cup {[packet_sequence |-> sequence,
                                         recv_tsc |-> tsc]}
          /\ recv_buffer_' = packet
          /\ received' = received \cup {packet}
          /\ event_queue_' = out.q
          /\ stats_' = out.st
          /\ released' = IF r.ret THEN Append(released, packet) ELSE released
          /\ resequence_data' =
                 [s \in SeqNums |->
                     IF s \notin r.m.resequence_buffer_ THEN "NONE"
                     ELSE IF s = sequence /\ buffered THEN msg_type
                     ELSE resequence_data[s]]
    /\ UNCHANGED <<ready_packets, consumed, trading_state>>

\* auto ready_packets = packet_manager_.get_ready_packets()
FeedDrain ==
    /\ RunDrain
    /\ LET r == get_ready_packets(pm, <<>>)
       IN /\ ready_packets' =
                 [i \in 1..Len(r.ret) |->
                     [packet_sequence |-> r.ret[i],
                      msg_type |-> resequence_data[r.ret[i]]]]
          /\ resequence_data' =
                 [s \in SeqNums |->
                     IF s \in r.m.resequence_buffer_
                     THEN resequence_data[s]
                     ELSE "NONE"]
    /\ UNCHANGED <<event_queue_, stats_, recv_buffer_, received, released,
                   consumed, trading_state, recv_tsc, captured>>

\* One turn of the loop over ready_packets: process_buffered_packet with the
\* recv_tsc of this iteration.
FeedBuffered ==
    /\ run_state = "running"
    /\ ready_packets # <<>>
    /\ LET packet == Head(ready_packets)
           out == parse_and_queue_packet(event_queue_, stats_, packet, recv_tsc)
       IN /\ event_queue_' = out.q
          /\ stats_' = out.st
          /\ released' = Append(released, packet)
    /\ ready_packets' = Tail(ready_packets)
    /\ UNCHANGED <<pmvars, runvars, resequence_data, recv_buffer_, received,
                   consumed, trading_state, recv_tsc, captured>>

\* bytes_received == 0: SpinWait::pause(), spin_count++. The maintenance
\* interval does not elapse in these runs.
FeedIdle ==
    /\ ready_packets = <<>>
    /\ InLoop
    /\ pm_pc = "poll"
    /\ spin_count' = (spin_count + 1) % STATS_INTERVAL
    /\ UNCHANGED <<g_running, run_state, pmvars, pipevars>>

\* An iteration whose maintenance interval has elapsed: periodic_maintenance
\* runs before the poll.
FeedMaintenance ==
    /\ ready_packets = <<>>
    /\ RunMaintenance
    /\ UNCHANGED pipevars

\* LatencyTracker::rdtsc() moving on.
FeedTick ==
    /\ RunTick
    /\ UNCHANGED pipevars

FeedReceiveError ==
    /\ ready_packets = <<>>
    /\ RunReceiveError
    /\ UNCHANGED pipevars

FeedExit ==
    /\ ready_packets = <<>>
    /\ RunExit
    /\ UNCHANGED pipevars

\* The loop test of TradingEngine::run with the flag read once, before the
\* loop.
TradingLoopTestHoisted == TRUE

\* while (g_running.load(std::memory_order_acquire))
TradingLoopTest == g_running

\* TradingEngine::run, one iteration: try_pop, process_event or pause.
TradingPop ==
    /\ trading_state = "running"
    /\ TradingLoopTest
    /\ LET r == try_pop(event_queue_)
       IN /\ event_queue_' = r.q
          /\ consumed' = IF r.ret THEN Append(consumed, r.item) ELSE consumed
    /\ UNCHANGED <<pmvars, runvars, stats_, resequence_data, ready_packets,
                   recv_buffer_, received, released, trading_state, recv_tsc,
                   captured>>

\* TradingEngine::run finds the flag cleared.
TradingExit ==
    /\ trading_state = "running"
    /\ ~TradingLoopTest
    /\ trading_state' = "returned"
    /\ UNCHANGED <<pmvars, runvars, event_queue_, stats_, resequence_data,
                   ready_packets, recv_buffer_, received, released, consumed,
                   recv_tsc, captured>>

FeedThread ==
    \/ \E sequence \in SeqNums, msg_type \in MessageTypes :
           /\ pm.stats_.total_packets < MaxPackets
           /\ FeedReceive(sequence, msg_type)
    \/ FeedDrain
    \/ FeedBuffered
    \/ FeedIdle
    \/ FeedReceiveError
    \/ FeedExit

TradingThread ==
    \/ TradingPop
    \/ TradingExit

PipeNext ==
    \/ FeedThread
    \/ TradingThread
    \/ SignalStop /\ UNCHANGED pipevars

\* ------------------------------------------------------------------------
\* MemoryPool used from a single thread, with the calls it completed
\* ------------------------------------------------------------------------
TraceInit == pool_trace = <<>>

Call(op, ptr) == [op |-> op, ptr |-> ptr]

\* The steps of allocate and deallocate that do not return yet.
SingleStep ==
    /\ \/ AllocBegin(1)
       \/ AllocLoad(1)
       \/ AllocReadNext(1)
       \/ \E ptr \in Slots : DeallocBegin(1, ptr)
       \/ DeallocLoad(1)
       \/ DeallocLink(1)
    /\ UNCHANGED pool_trace

\* return static_cast<void*>(old_head), or the loop goes round
SingleAllocCas ==
    /\ AllocCas(1)
    /\ pool_trace' = IF th'[1].pc = "idle"
                     THEN Append(pool_trace, Call("allocate", th[1].old_head))
                     ELSE pool_trace

\* return nullptr
SingleAllocFail ==
    /\ AllocFail(1)
    /\ pool_trace' = Append(pool_trace, Call("allocate", nullptr))

\* deallocate(ptr) returns once its compare_exchange_weak succeeds
SingleDeallocCas ==
    /\ DeallocCas(1)
    /\ pool_trace' = IF th'[1].pc = "idle"
                     THEN Append(pool_trace, Call("deallocate", th[1].node))
                     ELSE pool_trace

SingleDeallocNull ==
    /\ Len(pool_trace) <= MaxPoolOps
    /\ DeallocNull(1)
    /\ pool_trace' = Append(pool_trace, Call("deallocate", nullptr))

SinglePoolNext ==
    \/ SingleStep
    \/ SingleAllocCas
    \/ SingleAllocFail
    \/ SingleDeallocCas
    \/ SingleDeallocNull

\* ------------------------------------------------------------------------
\* Specifications
\* ------------------------------------------------------------------------
Init ==
    /\ PMInit /\ PoolInit /\ QueueInit /\ RunInit /\ LogInit /\ PipeInit
    /\ SizeInit /\ TraceInit

Next == PMNext /\ UNCHANGED <<poolvars, queuevars, runvars, logvars, pipevars, sizevars,
        tracevars>>

Spec == Init /\ [][Next]_vars

NextFeed == FeedNext /\ UNCHANGED <<poolvars, queuevars, runvars, logvars, pipevars, sizevars,
        tracevars>>

SpecFeed == Init /\ [][NextFeed]_vars

NextPool == PoolNext /\ UNCHANGED <<pmvars, queuevars, runvars, logvars, pipevars, sizevars,
        tracevars>>

SpecPool == Init /\ [][NextPool]_vars

NextQueue == QueueNext /\ UNCHANGED <<pmvars, poolvars, runvars, logvars, pipevars, sizevars,
        tracevars>>

SpecQueue == Init /\ [][NextQueue]_vars

NextRun == RunNext /\ UNCHANGED <<poolvars, queuevars, logvars, pipevars, sizevars,
        tracevars>>

SpecRun == Init /\ [][NextRun]_vars

NextLog == LogNext /\ UNCHANGED <<pmvars, poolvars, queuevars, runvars, pipevars, sizevars,
        tracevars>>

SpecLog == Init /\ [][NextLog]_vars

\* The two threads with the iterations in which maintenance is due.
ProgramNext ==
    \/ PipeNext
    \/ FeedMaintenance
    \/ FeedTick

NextProgram == ProgramNext /\ UNCHANGED <<poolvars, queuevars, logvars, sizevars,
        tracevars>>

SpecProgram == Init /\ [][NextProgram]_vars

NextSize == SizeNext /\ UNCHANGED <<pmvars, poolvars, runvars, logvars, pipevars,
                                    tracevars>>

SpecSize == Init /\ [][NextSize]_vars

NextPoolSingle == SinglePoolNext /\ UNCHANGED <<pmvars, queuevars, runvars, logvars,
                                              pipevars, sizevars>>

SpecPoolSingle == Init /\ [][NextPoolSingle]_vars

NextPipe == PipeNext /\ UNCHANGED <<poolvars, queuevars, logvars, sizevars,
        tracevars>>

SpecPipe == Init /\ [][NextPipe]_vars

\* Each of the two threads keeps being scheduled.
SpecPipeFair ==
    /\ SpecPipe
    /\ WF_vars(FeedThread
                   /\ UNCHANGED <<poolvars, queuevars, logvars, sizevars, tracevars>>)
    /\ WF_vars(TradingThread
                   /\ UNCHANGED <<poolvars, queuevars, logvars, sizevars, tracevars>>)

\* ------------------------------------------------------------------------
\* Properties of the packet manager
\* ------------------------------------------------------------------------
Ascending(S) == [i \in 1..Cardinality(S) |-> Min(S) + i - 1]

IsInterval(S) == S # {} /\ Cardinality(S) = Max(S) - Min(S) + 1

\* C1: the sequence numbers handed on for delivery are strictly increasing
\* in delivery order.
C1_DeliveryStrictlyIncreasing ==
    \A i, j \in 1..Len(delivered) : i < j => delivered[i] < delivered[j]

\* C2: no sequence number is delivered more than once over the lifetime of
\* the PacketManager.
C2_NoSequenceDeliveredTwice ==
    \A i, j \in 1..Len(delivered) : delivered[i] = delivered[j] => i = j

\* C3: once the arrivals have advanced next_expected past the end_seq of the
\* pending gap request and the buffer has been drained, the request is gone
\* and the feed no longer Recovering because of it.
C3_GapClosedOncePassed ==
    (pm_pc = "poll" /\ pm.state_ = RECOVERING)
        => \A i \in 1..Len(pm.pending_gaps_) :
               pm.pending_gaps_[i].end_seq >= pm.next_expected_seq_

\* What C4 asks of the input: the sequences received so far are exactly
\* s0..s0+k, nothing was evicted from the reorder buffer, and the drain that
\* follows the last arrival has run.
C4_AllArrived ==
    /\ pm_pc = "poll"
    /\ IsInterval(feed.arrived)
    /\ pm.stats_.dropped_overflow = 0

C4_FromLowest ==
    /\ C4_AllArrived
    /\ feed.first = Min(feed.arrived)
    /\ pm.state_ # STALE
    /\ ~feed.late

C7_NextExpectedNeverDecreases ==
    [][pm'.next_expected_seq_ >= pm.next_expected_seq_]_vars

\* C7 as amended: next_expected_seq_ never decreases across an operation
\* that starts outside Initial; only the first arrival accepted in Initial
\* (after a resync) may set it lower.
C7_NeverDecreasesOutsideInitial ==
    [][pm.state_ # INITIAL => pm'.next_expected_seq_ >= pm.next_expected_seq_]_vars

\* next_expected_seq_ has advanced outside Initial: a gap was reported
\* filled through process_gap_fill and a buffered packet was drained.
C7_Witness ==
    /\ pm.next_expected_seq_ >= 3
    /\ pm.stats_.resequenced >= 1
    /\ gap_fill_calls >= 1

DocumentedArcs ==
    {<<INITIAL, LIVE>>, <<LIVE, RECOVERING>>, <<LIVE, STALE>>,
     <<RECOVERING, LIVE>>, <<RECOVERING, STALE>>, <<STALE, INITIAL>>}

\* C8 as claimed: feed_state changes only along the six documented arcs.
C8_OnlyDocumentedArcs ==
    [][pm'.state_ = pm.state_ \/ <<pm.state_, pm'.state_>> \in DocumentedArcs]_vars

\* C8 as amended: feed_state changes only along the six documented arcs and
\* along Live->Initial and Recovering->Initial, which only trigger_resync
\* produces.
C8_ArcsWithResync ==
    [][\/ pm'.state_ = pm.state_
       \/ <<pm.state_, pm'.state_>> \in DocumentedArcs
       \/ /\ pm.state_ \in {LIVE, RECOVERING}
          /\ pm'.state_ = INITIAL
          /\ pm' = trigger_resync(pm)]_vars

\* Back in Initial after a gap request was retried.
C8_Witness ==
    /\ pm.state_ = INITIAL
    /\ pm.stats_.gaps_detected >= 1
    /\ retransmissions >= 2

\* C9: every transition of feed_state into Stale comes with a snapshot
\* request emitted through the recovery callback.
C9_StaleEmitsSnapshotRequest ==
    [][(pm.state_ # STALE /\ pm'.state_ = STALE) => snapshots' > snapshots]_vars

\* C10: a sequence evicted from the full reorder buffer, arriving again ahead
\* of next_expected, is not dropped as a duplicate but buffered again.
C10_EvictedRearrivalIsFresh ==
    [][(/\ pm_pc = "poll" /\ pm_pc' = "drain"
        /\ feed'.last \in overflowed
        /\ pm.state_ = RECOVERING
        /\ feed'.last > pm.next_expected_seq_)
       => /\ pm'.stats_.duplicates = pm.stats_.duplicates
          /\ feed'.last \in pm'.resequence_buffer_]_vars

\* ------------------------------------------------------------------------
\* Properties of the memory pool and of the ring
\* ------------------------------------------------------------------------
\* C5: under any interleaving of allocate and deallocate, each slot is in
\* exactly one place: once on the free list, or held by one caller (or
\* inside the deallocate call that is returning it).
C5_SlotInExactlyOnePlace ==
    \A s \in Slots : OnFreeList(s) + Holders(s) + InTransit(s) = 1

IsPrefix(a, b) == Len(a) <= Len(b) /\ \A i \in 1..Len(a) : a[i] = b[i]

\* C6: the values returned by successful pops are a prefix of the values
\* accepted by successful pushes.
C6_PoppedIsPrefixOfPushed == IsPrefix(popped, pushed)

\* The ring has wrapped: more values went through than it has slots, and
\* the producer had to reload the consumer's position on the way.
C6_Witness ==
    /\ Len(popped) > Size
    /\ Len(pushed) = MaxPush
    /\ cached_read_pos_ > 0

\* ------------------------------------------------------------------------
\* Properties of the ingest loop
\* ------------------------------------------------------------------------
\* C11: FeedHandler::run returns only after the running flag has been
\* cleared; a receive error does not end the loop.
C11_ReturnsOnlyAfterStop == run_state = "returned" => ~g_running

\* ------------------------------------------------------------------------
\* Properties of gap recovery
\* ------------------------------------------------------------------------
\* C12: process_gap_fill(s, e) called a second time with the same arguments,
\* nothing in between, leaves the whole PacketManager state as the first
\* call left it, the gaps_filled counter included.  Stated where the call
\* is meant to be made: with the feed Recovering.
C12_GapFillIdempotent ==
    (pm_pc = "poll" /\ pm.state_ = RECOVERING) =>
        \A start_seq, end_seq \in SeqNums :
            start_seq <= end_seq =>
                LET once == process_gap_fill(pm, start_seq, end_seq)
                IN process_gap_fill(once, start_seq, end_seq) = once

\* ------------------------------------------------------------------------
\* Properties of the pool's statistics
\* ------------------------------------------------------------------------
RECURSIVE SumHeld(_)
SumHeld(T) ==
    IF T = {} THEN 0
    ELSE LET t == CHOOSE x \in T : TRUE
         IN Cardinality(held[t]) + SumHeld(T \ {t})

\* No thread is inside allocate or deallocate.
PoolQuiescent == \A t \in Threads : th[t].pc = "idle"

\* C13: whenever the pool is observed between calls, in_use equals the
\* number of slots handed out and not yet returned, and never exceeds
\* PoolSize.
C13_InUseIsSlotsHandedOut ==
    PoolQuiescent =>
        /\ get_stats.in_use = SumHeld(Threads)
        /\ get_stats.in_use <= PoolSize

\* The only gap request registered so far is still pending.
FirstGapPending ==
    /\ pm.stats_.gaps_detected = 1
    /\ pm.pending_gaps_ # <<>>

\* Callbacks made for the first gap: one at detection, one per retry; all of
\* them once the retries are used up and the feed is Stale.
CallbacksOfFirstGap ==
    FirstGapPending =>
        /\ retransmissions = 1 + pm.pending_gaps_[1].retry_count
        /\ pm.pending_gaps_[1].retry_count <= MAX_RETRIES
        /\ pm.state_ = STALE => retransmissions = 1 + MAX_RETRIES

\* C14: a pending gap that is never filled gets the recovery callback
\* 1 + MAX_RETRIES times in total, once at detection and once per timed-out
\* maintenance tick, and never again once the feed is Stale.
C14_CallbackCountForUnfilledGap ==
    [][/\ CallbacksOfFirstGap'
       /\ (pm.state_ = STALE /\ pm'.state_ = STALE)
              => retransmissions' = retransmissions]_vars

\* Stale by retry exhaustion with the request still pending and timed out
\* again, so that a further maintenance tick would find it.
C14_Witness ==
    /\ FirstGapPending
    /\ pm.state_ = STALE
    /\ retransmissions = 1 + MAX_RETRIES
    /\ pm.pending_gaps_[1].retry_count = MAX_RETRIES
    /\ now - pm.pending_gaps_[1].request_time_ns > GAP_TIMEOUT_NS

\* Expired timeouts of the pending request that maintenance ticks have seen
\* so far: each one seen while retry_count < MAX_RETRIES made one retry.
ExpiredTimeoutsSeen == pm.pending_gaps_[1].retry_count

\* C15 as claimed: the MAX_RETRIES-th expired timeout of a pending gap is the
\* one that moves the feed from Recovering to Stale.
C15_StaleOnMaxRetriesthTimeout ==
    [][(pm.state_ = RECOVERING /\ pm'.state_ = STALE)
          => ExpiredTimeoutsSeen + 1 = MAX_RETRIES]_vars

\* C15 as amended: the first MAX_RETRIES expired timeouts are answered by a
\* retry; the one after them, number MAX_RETRIES + 1, moves the feed from
\* Recovering to Stale.
C15_StaleOnTimeoutAfterLastRetry ==
    [][(pm.state_ = RECOVERING /\ pm'.state_ = STALE)
          => /\ ExpiredTimeoutsSeen + 1 = MAX_RETRIES + 1
             /\ now - pm.pending_gaps_[1].request_time_ns > GAP_TIMEOUT_NS
             /\ pm' = periodic_maintenance(pm, now, 1, <<>>).m]_vars

\* Input 1,2,5 and nothing more: Stale after the retries.
C15_Witness ==
    /\ pm.state_ = STALE
    /\ delivered = <<1, 2>>
    /\ pm.resequence_buffer_ = {5}
    /\ pm.stats_.total_packets = 3
    /\ pm.pending_gaps_ # <<>>
    /\ gap_fill_calls = 0

\* ------------------------------------------------------------------------
\* Properties of the state dispatch
\* ------------------------------------------------------------------------
\* The step is process_packet on a sequence ahead of next_expected that is
\* not in the duplicate window, with the feed Live.
AheadInLive ==
    /\ pm_pc = "poll" /\ pm_pc' = "drain"
    /\ pm.state_ = LIVE
    /\ ~is_duplicate(pm, feed'.last)
    /\ feed'.last > pm.next_expected_seq_

\* C16: in Live, a non-duplicate arrival ahead of next_expected takes the
\* feed to Stale iff seq - next_expected > MAX_GAP_SIZE.  Up to MAX_GAP_SIZE
\* the feed goes to Recovering, the packet is buffered and one request is
\* registered; above it nothing is delivered, buffered or registered and
\* next_expected stays.
C16_StaleIffGapAboveMax ==
    [][AheadInLive =>
         LET gap_size == feed'.last - pm.next_expected_seq_
         IN /\ pm'.state_ = STALE <=> gap_size > MAX_GAP_SIZE
            /\ pm'.next_expected_seq_ = pm.next_expected_seq_
            /\ delivered' = delivered
            /\ gap_size <= MAX_GAP_SIZE =>
                  /\ pm'.state_ = RECOVERING
                  /\ feed'.last \in pm'.resequence_buffer_
                  /\ Len(pm'.pending_gaps_) = Len(pm.pending_gaps_) + 1
                  /\ pm'.pending_gaps_[Len(pm'.pending_gaps_)].start_seq
                         = pm.next_expected_seq_
                  /\ pm'.pending_gaps_[Len(pm'.pending_gaps_)].end_seq
                         = feed'.last - 1
            /\ gap_size > MAX_GAP_SIZE =>
                  /\ pm'.resequence_buffer_ = pm.resequence_buffer_
                  /\ pm'.pending_gaps_ = pm.pending_gaps_]_vars

\* A gap of exactly MAX_GAP_SIZE was detected in Live: the feed is
\* Recovering with the packet buffered.
C16_Witness ==
    /\ pm.state_ = RECOVERING
    /\ pm_pc = "drain"
    /\ Len(pm.pending_gaps_) = 1
    /\ pm.pending_gaps_[1].end_seq - pm.pending_gaps_[1].start_seq + 1 = MAX_GAP_SIZE
    /\ feed.last = pm.pending_gaps_[1].end_seq + 1
    /\ feed.last \in pm.resequence_buffer_

\* C17: while the feed is Stale every process_packet returns drop,
\* get_ready_packets returns nothing, and both leave next_expected, the
\* reorder buffer and pending_gaps alone; the feed leaves Stale only by
\* trigger_resync, and nothing is delivered until then.
C17_StaleDropsUntilResync ==
    [][pm.state_ = STALE =>
         /\ delivered' = delivered
         /\ pm'.state_ = STALE \/ pm' = trigger_resync(pm)
         /\ pm_pc' # pm_pc =>
               /\ pm'.next_expected_seq_ = pm.next_expected_seq_
               /\ pm'.resequence_buffer_ = pm.resequence_buffer_
               /\ pm'.pending_gaps_ = pm.pending_gaps_
               /\ pm_pc = "poll" => should_process' = FALSE]_vars

\* The sequence the feed was waiting for arrived while Stale and was
\* dropped, with its successor still in the reorder buffer.
C17_Witness ==
    /\ pm.state_ = STALE
    /\ pm_pc = "poll"
    /\ feed.last = pm.next_expected_seq_
    /\ ~should_process
    /\ pm.next_expected_seq_ + 1 \in pm.resequence_buffer_
    /\ pm.stats_.duplicates = 0

\* ------------------------------------------------------------------------
\* Properties of the logger's queue
\* ------------------------------------------------------------------------
InTryPush(t) == lth[t].pc \in {"reload", "write", "store"}

\* C18: no reachable interleaving has two threads inside try_push of the
\* same queue.
C18_OneThreadInTryPush ==
    Cardinality({t \in LogThreads : InTryPush(t)}) <= 1

\* ------------------------------------------------------------------------
\* Properties of the ring's positions
\* ------------------------------------------------------------------------
\* C19: in every reachable state of one producer and one consumer,
\* 0 <= write_pos - read_pos <= Size.
C19_OccupancyWithinCapacity ==
    /\ 0 <= write_pos_ - read_pos_
    /\ write_pos_ - read_pos_ <= Size

\* The ring is full again after the positions have wrapped.
C19_Witness ==
    /\ write_pos_ - read_pos_ = Size
    /\ read_pos_ >= Size

\* C20: try_push fails only, and always, when the ring holds exactly Size
\* items at the moment it reloads read_pos; try_pop fails only, and always,
\* when the ring is empty at the moment it reloads write_pos.
C20_FailsOnlyWhenFullOrEmpty ==
    [][/\ (prod.pc = "reload" /\ prod' # prod) =>
             (prod'.pc = "idle" <=> write_pos_ - read_pos_ = Size)
       /\ (prod.pc = "idle" /\ prod' # prod) => prod'.pc # "idle"
       /\ (cons.pc = "reload" /\ cons' # cons) =>
             (cons'.pc = "idle" <=> write_pos_ = read_pos_)
       /\ (cons.pc = "idle" /\ cons' # cons) => cons'.pc # "idle"]_vars

\* After a pop, one push was accepted and the next one was turned away:
\* the ring is full and the value offered last is not among the accepted.
C20_Witness ==
    /\ prod.pc = "idle"
    /\ prod.item = Len(pushed) + 1
    /\ Len(pushed) = Size + 1
    /\ Len(popped) = 1
    /\ cons.pc = "idle"
    /\ write_pos_ - read_pos_ = Size

\* ------------------------------------------------------------------------
\* Properties of the bounded structures
\* ------------------------------------------------------------------------
\* C21: after every operation the reorder buffer holds at most
\* MAX_RESEQUENCE_BUFFER_SIZE entries and the duplicate window, deque and
\* set, at most DUPLICATE_WINDOW_SIZE sequences.
C21_BufferAndWindowBounded ==
    /\ Cardinality(pm.resequence_buffer_) <= MAX_RESEQUENCE_BUFFER_SIZE
    /\ Len(pm.recent_sequences_) <= DUPLICATE_WINDOW_SIZE
    /\ Cardinality(pm.recent_seq_set_) <= DUPLICATE_WINDOW_SIZE

\* Both structures are at their limit and both have evicted.
C21_Witness ==
    /\ Cardinality(pm.resequence_buffer_) = MAX_RESEQUENCE_BUFFER_SIZE
    /\ pm.stats_.dropped_overflow >= 1
    /\ Len(pm.recent_sequences_) = DUPLICATE_WINDOW_SIZE
    /\ pm.stats_.total_packets - pm.stats_.duplicates > DUPLICATE_WINDOW_SIZE

\* The window after one more accepted sequence: appended, the first
\* inserted one leaving when the window was full.
SlideWindow(window, sequence) ==
    IF Len(window) = DUPLICATE_WINDOW_SIZE
    THEN Append(Tail(window), sequence)
    ELSE Append(window, sequence)

\* C22: the duplicate window holds distinct sequences in insertion order;
\* an arrival counts as a duplicate exactly when its sequence is in the
\* window and then leaves the window alone; any other arrival is appended,
\* and when the window was full exactly the first inserted sequence leaves.
C22_WindowSlidesInInsertionOrder ==
    [][(pm_pc = "poll" /\ pm_pc' = "drain") =>
          LET sequence == feed'.last
              window == pm.recent_sequences_
              inWindow == \E i \in 1..Len(window) : window[i] = sequence
          IN /\ pm'.recent_seq_set_ =
                    {pm'.recent_sequences_[i] : i \in 1..Len(pm'.recent_sequences_)}
             /\ Cardinality(pm'.recent_seq_set_) = Len(pm'.recent_sequences_)
             /\ IF inWindow
                THEN /\ pm'.stats_.duplicates = pm.stats_.duplicates + 1
                     /\ pm'.recent_sequences_ = window
                ELSE /\ pm'.stats_.duplicates = pm.stats_.duplicates
                     /\ pm'.recent_sequences_ = SlideWindow(window, sequence)
      ]_vars

\* A sequence that had left the full window has arrived again, was not
\* counted as a duplicate and is the newest entry of the window.
C22_Witness ==
    /\ pm_pc = "drain"
    /\ feed.late
    /\ Len(pm.recent_sequences_) = DUPLICATE_WINDOW_SIZE
    /\ pm.recent_sequences_[DUPLICATE_WINDOW_SIZE] = feed.last
    /\ pm.stats_.duplicates >= 1

\* An arrival of a sequence that is in the duplicate window.
DuplicateArrival ==
    /\ pm_pc = "poll"
    /\ pm_pc' = "drain"
    /\ feed'.last \in pm.recent_seq_set_

\* C23 as stated: a duplicate arrival adds one to duplicates, returns drop
\* and changes nothing else of the packet manager.
C23_DuplicateChangesOnlyDuplicates ==
    [][DuplicateArrival =>
          /\ should_process' = FALSE
          /\ pm' = Bump(pm, "duplicates")
      ]_vars

\* C23: a duplicate arrival adds one to duplicates and one to
\* total_packets, returns drop and changes nothing else: state,
\* next expected sequence, pending gaps, window, reorder buffer and every
\* other counter stay as they were, nothing is delivered and no request is
\* emitted.
C23_DuplicateChangesOnlyCounters ==
    [][DuplicateArrival =>
          /\ should_process' = FALSE
          /\ pm' = Bump(Bump(pm, "total_packets"), "duplicates")
          /\ UNCHANGED <<delivered, retransmissions, snapshots>>
      ]_vars

\* The arrival just handled was a duplicate of a sequence that is waiting
\* in the reorder buffer.
C23_Witness ==
    /\ pm_pc = "drain"
    /\ feed.last \in pm.recent_seq_set_
    /\ pm.recent_sequences_[Len(pm.recent_sequences_)] # feed.last
    /\ feed.last \in pm.resequence_buffer_
    /\ pm.stats_.duplicates >= 1
    /\ ~should_process

\* An arrival, not a duplicate, ahead of next_expected_seq_ while the feed
\* is Recovering.
AheadInRecovering ==
    /\ pm_pc = "poll"
    /\ pm_pc' = "drain"
    /\ pm.state_ = RECOVERING
    /\ feed'.last \notin pm.recent_seq_set_
    /\ feed'.last > pm.next_expected_seq_

\* Some pending request has timed out with its retries used up.
ExhaustedRequestTimedOut ==
    \E i \in 1..Len(pm.pending_gaps_) :
        /\ now - pm.pending_gaps_[i].request_time_ns > GAP_TIMEOUT_NS
        /\ pm.pending_gaps_[i].retry_count >= MAX_RETRIES

\* C24: in Recovering an arrival ahead of next_expected_seq_, however far,
\* leaves the feed Recovering and is put in the reorder buffer (when no
\* bytes came with it the buffer and out_of_order stay as they were); and
\* the only step from Recovering to Stale is a periodic_maintenance that
\* finds a timed-out request with its retries used up.
C24_RecoveringNeverStaleOnArrival ==
    [][/\ AheadInRecovering =>
           /\ pm'.state_ = RECOVERING
           /\ should_process' = FALSE
           /\ \/ /\ feed'.last \in pm'.resequence_buffer_
                 /\ pm'.stats_.out_of_order = pm.stats_.out_of_order + 1
              \/ /\ pm'.resequence_buffer_ = pm.resequence_buffer_
                 /\ pm'.stats_.out_of_order = pm.stats_.out_of_order
       /\ (pm.state_ = RECOVERING /\ pm'.state_ = STALE) =>
           /\ pm_pc = "poll"
           /\ pm_pc' = "poll"
           /\ ExhaustedRequestTimedOut
           /\ pm' = [pm EXCEPT !.state_ = STALE]
      ]_vars

\* Still Recovering with a sequence more than MAX_GAP_SIZE ahead just put in
\* the reorder buffer.
C24_Witness ==
    /\ pm_pc = "drain"
    /\ pm.state_ = RECOVERING
    /\ feed.last > pm.next_expected_seq_ + MAX_GAP_SIZE
    /\ feed.last \in pm.resequence_buffer_
    /\ pm.recent_sequences_[Len(pm.recent_sequences_)] = feed.last
    /\ pm.stats_.out_of_order >= 2

\* C25: whatever the packet manager's state, trigger_resync leaves the
\* feed Initial with an empty reorder buffer, no pending gaps and an empty
\* duplicate window (deque and set), and a second call right after the
\* first changes nothing.
C25_ResyncClearsAndIsIdempotent ==
    LET once == trigger_resync(pm)
        twice == trigger_resync(once)
    IN /\ once.state_ = INITIAL
       /\ once.resequence_buffer_ = {}
       /\ once.pending_gaps_ = <<>>
       /\ once.recent_sequences_ = <<>>
       /\ once.recent_seq_set_ = {}
       /\ twice = once

\* A resync has acted on a feed that had detected a gap: Initial again with
\* everything cleared, although packets have been counted.
C25_Witness ==
    /\ pm.state_ = INITIAL
    /\ pm.stats_.gaps_detected >= 1
    /\ pm.stats_.out_of_order >= 1
    /\ pm.resequence_buffer_ = {}
    /\ pm.pending_gaps_ = <<>>
    /\ pm.recent_seq_set_ = {}

\* ------------------------------------------------------------------------
\* Properties of the path from datagram to consumer
\* ------------------------------------------------------------------------
TradeOrQuote(packet) == packet.msg_type \in {"TRADE", "QUOTE"}

\* The packet handed to parse_and_queue_packet in this step, if any.
ReleasedNow == Len(released') = Len(released) + 1

RingFull == event_queue_.write_pos_ - event_queue_.read_pos_ >= Size

\* C26: a Trade or Quote packet released while the ring is full adds one to
\* packets_dropped, leaves packets_processed and the ring's contents as
\* they were and the loop goes on; released while the ring has room it adds
\* one to packets_processed only and is in the ring; so the two counters
\* together count the Trade and Quote packets released.
C26_RingFullCountsDropOnly ==
    [][/\ (ReleasedNow /\ TradeOrQuote(released'[Len(released')])) =>
           LET packet == released'[Len(released')]
           IN IF RingFull
              THEN /\ stats_'.packets_dropped = stats_.packets_dropped + 1
                   /\ stats_'.packets_processed = stats_.packets_processed
                   /\ event_queue_'.buffer_ = event_queue_.buffer_
                   /\ event_queue_'.write_pos_ = event_queue_.write_pos_
                   /\ run_state' = "running"
              ELSE /\ stats_'.packets_processed = stats_.packets_processed + 1
                   /\ stats_'.packets_dropped = stats_.packets_dropped
                   /\ event_queue_'.write_pos_ = event_queue_.write_pos_ + 1
                   /\ event_queue_'.buffer_[Slot(event_queue_.write_pos_)].type =
                          packet.msg_type
                   /\ event_queue_'.buffer_[Slot(event_queue_.write_pos_)].payload =
                          packet.packet_sequence
       /\ stats_'.packets_processed + stats_'.packets_dropped =
              Cardinality({i \in 1..Len(released') : TradeOrQuote(released'[i])})
      ]_vars

\* The ring was full when a Trade or Quote packet was released, and the loop
\* is still running.
C26_Witness ==
    /\ stats_.packets_dropped >= 1
    /\ stats_.packets_processed >= Size
    /\ run_state = "running"
    /\ g_running
    /\ ready_packets = <<>>

\* A HEARTBEAT datagram is received in this step.
HeartbeatReceived ==
    /\ stats_'.packets_received = stats_.packets_received + 1
    /\ recv_buffer_'.msg_type = "HEARTBEAT"

\* C27: a HEARTBEAT packet goes through PacketManager::process_packet as
\* any datagram does (duplicate test, next expected sequence, gap handling)
\* and is handed on in its turn, but it never changes the event ring or the
\* processed and dropped counters, and no event of that type is ever in the
\* ring or popped by the trading engine.
C27_HeartbeatSequencedNotQueued ==
    [][/\ HeartbeatReceived =>
           LET r == process_packet(pm, recv_buffer_'.packet_sequence, TRUE, now)
           IN /\ pm' = r.m
              /\ should_process' = r.ret
              /\ released' = IF r.ret
                             THEN Append(released, recv_buffer_')
                             ELSE released
              /\ event_queue_' = event_queue_
       /\ (ReleasedNow /\ released'[Len(released')].msg_type = "HEARTBEAT") =>
           /\ event_queue_' = event_queue_
           /\ stats_'.packets_processed = stats_.packets_processed
           /\ stats_'.packets_dropped = stats_.packets_dropped
       /\ \A i \in 0..(Size - 1) : event_queue_'.buffer_[i].type # "HEARTBEAT"
       /\ \A i \in 1..Len(consumed') : consumed'[i].type # "HEARTBEAT"
      ]_vars

\* A HEARTBEAT that arrived ahead was buffered, then drained after the gap
\* closed and handed on third, moving the next expected sequence past it,
\* while an event of another packet has reached the trading engine.
C27_Witness ==
    /\ Len(released) = 3
    /\ released[3].msg_type = "HEARTBEAT"
    /\ pm.stats_.resequenced = 1
    /\ pm.stats_.gaps_detected >= 1
    /\ pm.next_expected_seq_ = released[3].packet_sequence + 1
    /\ Len(consumed) >= 1

\* C28: once g_running is false, FeedHandler::run and TradingEngine::run
\* both return, given that each thread keeps being scheduled: whatever the
\* feed state, whatever is in the ring or still to be handed on.
C28_BothLoopsReturnAfterStop ==
    (~g_running) ~> (run_state = "returned" /\ trading_state = "returned")

\* Both loops have returned after the stop, with events left in the ring and
\* the feed in the middle of a recovery.
C28_Witness ==
    /\ ~g_running
    /\ run_state = "returned"
    /\ trading_state = "returned"
    /\ event_queue_.write_pos_ > event_queue_.read_pos_
    /\ pm.state_ = RECOVERING
    /\ pm.resequence_buffer_ # {}

\* The packets handed on so far and those get_ready_packets has returned.
HandedOn == released \o ready_packets

\* C29: every sequence the packet manager delivers, straight from
\* process_packet or out of the reorder buffer, is the sequence of a
\* datagram passed to process_packet before; and the packet kept in the
\* reorder buffer under a sequence, and handed on when it is drained, is
\* a datagram that arrived with that sequence.
C29_DeliversOnlyWhatArrived ==
    /\ \A i \in 1..Len(delivered) : delivered[i] \in feed.arrived
    /\ delivered = [i \in 1..Len(HandedOn) |-> HandedOn[i].packet_sequence]
    /\ \A i \in 1..Len(HandedOn) : HandedOn[i] \in received
    /\ \A s \in pm.resequence_buffer_ :
           [packet_sequence |-> s, msg_type |-> resequence_data[s]] \in received

\* Three datagrams have arrived and all three have been handed on, one of
\* them out of the reorder buffer.
C29_Witness ==
    /\ Cardinality(received) = 3
    /\ Len(released) = 3
    /\ ready_packets = <<>>
    /\ pm.stats_.resequenced >= 1
    /\ pm.stats_.duplicates = 0

\* ------------------------------------------------------------------------
\* Delivery of a complete stream
\* ------------------------------------------------------------------------
\* What C30 asks of the run: the first datagram carried the lowest sequence,
\* the sequences received are exactly s0..s0+k, no forward jump took the
\* feed to Stale, the reorder buffer never overflowed, the duplicate window
\* never evicted (no more sequences accepted than it holds), and the drain
\* after the last arrival has run.
C30_CompleteStream ==
    /\ pm_pc = "poll"
    /\ feed.arrived # {}
    /\ feed.first = Min(feed.arrived)
    /\ IsInterval(feed.arrived)
    /\ pm.state_ # STALE
    /\ pm.stats_.dropped_overflow = 0
    /\ pm.stats_.total_packets - pm.stats_.duplicates <= DUPLICATE_WINDOW_SIZE

MaintenanceActed ==
    /\ pm_pc = "poll"
    /\ pm_pc' = "poll"
    /\ now' = now
    /\ \/ retransmissions' > retransmissions
       \/ pm.state_ # STALE /\ pm'.state_ = STALE

\* C31: periodic_maintenance re-emits a request or takes the feed to Stale
\* only when a pending request still covers a sequence not yet delivered
\* (end_seq >= next_expected_seq_).
C31_MaintenanceOnlyForOpenGaps ==
    [][MaintenanceActed =>
          \E i \in 1..Len(pm.pending_gaps_) :
              pm.pending_gaps_[i].end_seq >= pm.next_expected_seq_
      ]_vars

\* C32: size(), called while pushes and pops go on, returns a value from 0
\* to Size.
C32_SizeWithinCapacity ==
    size_call.ret \in 0..Size

\* C33: in the assembled program (no step of it calls trigger_resync, and
\* process_gap_fill is reached only through handle_recovering_state), once
\* the feed is Stale it stays Stale, no packet is handed on and the ring
\* receives no further event.
C33_StaleIsFinalInProgram ==
    [][pm.state_ = STALE =>
          /\ pm'.state_ = STALE
          /\ released' = released
          /\ ready_packets' = <<>>
          /\ event_queue_'.write_pos_ = event_queue_.write_pos_
          /\ event_queue_'.buffer_ = event_queue_.buffer_
          /\ stats_'.packets_processed = stats_.packets_processed
      ]_vars

\* Maintenance gave up on a pending request; afterwards the very sequence
\* the feed was waiting for arrived and was not handed on.
C33_Witness ==
    /\ pm.state_ = STALE
    /\ pm.pending_gaps_ # <<>>
    /\ pm_pc = "poll"
    /\ recv_buffer_.packet_sequence = pm.next_expected_seq_
    /\ pm.stats_.duplicates = 0
    /\ Len(released) >= 1
    /\ released[Len(released)].packet_sequence < pm.next_expected_seq_

\* The request handle_live_state builds for a sequence arriving now.
GapRequestFor(sequence) ==
    [start_seq |-> pm.next_expected_seq_,
     end_seq |-> sequence - 1,
     request_time_ns |-> now,
     retry_count |-> 0]

\* C34: in Live a non-duplicate arrival (with its bytes) at most
\* MAX_GAP_SIZE ahead of next_expected_seq_ registers exactly one request
\* (start next_expected, end seq - 1, the arrival's timestamp, no retry),
\* invokes the callback once with it, puts the packet in the reorder
\* buffer, adds one to gaps_detected and to out_of_order, makes the feed
\* Recovering, leaves next_expected_seq_ alone and returns false.
C34_SmallGapInLiveRegistersOneRequest ==
    (pm_pc = "poll" /\ pm.state_ = LIVE) =>
        \A sequence \in SeqNums :
            (/\ ~is_duplicate(pm, sequence)
             /\ sequence > pm.next_expected_seq_
             /\ sequence - pm.next_expected_seq_ <= MAX_GAP_SIZE) =>
                LET r == process_packet(pm, sequence, TRUE, now)
                IN /\ r.m.pending_gaps_ =
                          Append(pm.pending_gaps_, GapRequestFor(sequence))
                   /\ r.cb = <<[req |-> GapRequestFor(sequence), seen |-> LIVE]>>
                   /\ sequence \in r.m.resequence_buffer_
                   /\ r.m.stats_.gaps_detected = pm.stats_.gaps_detected + 1
                   /\ r.m.stats_.out_of_order = pm.stats_.out_of_order + 1
                   /\ r.m.state_ = RECOVERING
                   /\ r.m.next_expected_seq_ = pm.next_expected_seq_
                   /\ r.ret = FALSE

\* A jump of exactly MAX_GAP_SIZE, seen in Live after the clock has moved,
\* has just been registered and the packet buffered.
C34_Witness ==
    /\ pm_pc = "drain"
    /\ pm.state_ = RECOVERING
    /\ now > 0
    /\ Len(pm.pending_gaps_) = 1
    /\ pm.pending_gaps_[1].request_time_ns = now
    /\ pm.pending_gaps_[1].end_seq - pm.pending_gaps_[1].start_seq + 1 = MAX_GAP_SIZE
    /\ feed.last = pm.pending_gaps_[1].end_seq + 1
    /\ feed.last \in pm.resequence_buffer_
    /\ ~should_process

\* C35: between operations, a feed that is Initial or Live has no pending
\* request and a feed that is Recovering has at least one.
C35_PendingGapsMatchState ==
    /\ pm.state_ \in {INITIAL, LIVE} => pm.pending_gaps_ = <<>>
    /\ pm.state_ = RECOVERING => pm.pending_gaps_ # <<>>

\* Live again after a recovery: the request was registered, then removed by
\* process_gap_fill.
C35_Witness ==
    /\ pm.state_ = LIVE
    /\ pm.pending_gaps_ = <<>>
    /\ pm.stats_.gaps_detected >= 1
    /\ pm.stats_.gaps_filled >= 1
    /\ pm.stats_.total_packets >= 2

\* C36: pending_gaps_ never holds more than one request.
C36_AtMostOnePendingGap ==
    Len(pm.pending_gaps_) <= 1

\* Recovering with its one request, after a second forward jump was
\* buffered without registering another.
C36_Witness ==
    /\ pm.state_ = RECOVERING
    /\ Len(pm.pending_gaps_) = 1
    /\ pm.stats_.gaps_detected = 1
    /\ pm.stats_.out_of_order >= 2
    /\ Max(pm.resequence_buffer_) > pm.pending_gaps_[1].end_seq + 1

\* The events pushed to the ring so far: those popped and those still in it.
PushedEvents ==
    ({consumed[i] : i \in 1..Len(consumed)}
        \cup {event_queue_.buffer_[i] : i \in 0..(Size - 1)}) \ {MarketEvent0}

\* C37: every event pushed to the ring carries as its receive timestamp the
\* timestamp captured on arrival of the datagram it was built from, events
\* built from packets released from the reorder buffer included.
C37_EventCarriesArrivalTimestamp ==
    \A event \in PushedEvents :
        [packet_sequence |-> event.payload,
         recv_tsc |-> event.recv_timestamp_ns] \in captured

\* C38: with the consumer thread scheduled fairly, the k-th event pushed to
\* the ring is eventually the k-th event TradingEngine::run pops and hands to
\* process_event, unless the running flag is cleared first.
C38_PushedEventuallyPopped ==
    \A k \in 1..MaxPackets :
        (event_queue_.write_pos_ >= k)
            ~> (\/ Len(consumed) >= k /\ event_queue_.read_pos_ >= k
                \/ ~g_running)

\* Every datagram of the run became an event and was popped while the flag
\* was still set; the ring was full on the way.
C38_Witness ==
    /\ g_running
    /\ trading_state = "running"
    /\ event_queue_.write_pos_ = MaxPackets
    /\ Len(consumed) = MaxPackets
    /\ event_queue_.read_pos_ = event_queue_.write_pos_

\* The allocate calls of the trace, in order.
AllocateCalls == SelectSeq(pool_trace, LAMBDA c : c.op = "allocate")

\* No block has been given back so far.
NothingReturned ==
    \A i \in 1..Len(pool_trace) :
        pool_trace[i].op = "allocate" \/ pool_trace[i].ptr = nullptr

\* The call after call i that is not deallocate(nullptr), 0 if there is none.
NextRealCall(i) ==
    LET later == {j \in (i + 1)..Len(pool_trace) :
                     pool_trace[j] # Call("deallocate", nullptr)}
    IN IF later = {} THEN 0 ELSE Min(later)

\* C39: from one thread, the first PoolSize allocate calls on a fresh pool
\* return slots 0, 1, ... in that order, the next one returns null and counts
\* one alloc_failure; an allocate that follows deallocate(p) returns p; and
\* deallocate(nullptr) changes nothing in the pool.
C39_SingleThreadAllocateOrder ==
    [][/\ NothingReturned' =>
              /\ \A i \in 1..Len(AllocateCalls') :
                     AllocateCalls'[i].ptr =
                         IF i <= PoolSize THEN i - 1 ELSE nullptr
              /\ pool_stats'.alloc_failures_ =
                     Cardinality({i \in 1..Len(AllocateCalls') : i > PoolSize})
       /\ \A i \in 1..Len(pool_trace') :
              (/\ pool_trace'[i].op = "deallocate"
               /\ pool_trace'[i].ptr # nullptr
               /\ NextRealCall(i)' # 0
               /\ pool_trace'[NextRealCall(i)'].op = "allocate")
                  => pool_trace'[NextRealCall(i)'].ptr = pool_trace'[i].ptr
       /\ (/\ Len(pool_trace') = Len(pool_trace) + 1
           /\ pool_trace'[Len(pool_trace')] = Call("deallocate", nullptr))
              => UNCHANGED poolvars
      ]_vars

\* PoolSize + 1 allocate calls were made on the fresh pool, the last one
\* failed, and deallocate(nullptr) was called on the exhausted pool.
C39_Witness ==
    /\ Len(AllocateCalls) = PoolSize + 1
    /\ AllocateCalls[PoolSize + 1].ptr = nullptr
    /\ NothingReturned
    /\ pool_trace[Len(pool_trace)] = Call("deallocate", nullptr)

\* A block other than the last one allocated was given back and the next
\* allocate returned it.
C39_WitnessReuse ==
    /\ Len(pool_trace) >= 4
    /\ pool_trace[3] = Call("deallocate", 0)
    /\ pool_trace[4] = Call("allocate", 0)

\* C40: after process_packet and the get_ready_packets that follows it,
\* every key of the reorder buffer is strictly greater than next_expected.
C40_BufferAheadOfNextExpected ==
    pm_pc = "poll" =>
        \A s \in pm.resequence_buffer_ : s > pm.next_expected_seq_

\* A drain released a buffered packet and left a later one in the buffer.
C40_Witness ==
    /\ pm_pc = "poll"
    /\ pm.stats_.resequenced >= 1
    /\ pm.resequence_buffer_ # {}
    /\ Min(pm.resequence_buffer_) = pm.next_expected_seq_ + 1
    /\ delivered # <<>>
    /\ delivered[Len(delivered)] = pm.next_expected_seq_ - 1

====
